---- MODULE Spec2Model ----
(***************************************************************************)
(* Model of the document-to-ledger core of kaigen-automate:                *)
(*   - the entity validators  (src/domain/entities/*.py),                  *)
(*   - the journal row builders and the ledger read / append of            *)
(*     GoogleSheetsService (src/infrastructure/google_sheets/              *)
(*     spreadsheet_service.py).                                            *)
(*                                                                         *)
(* Strings.  A Python str is a sequence of tokens; the tokens of an        *)
(* f-string are its literal pieces and its interpolated values, "" is <<>>.*)
(* The module is ASCII, so the Japanese literals are romanised:            *)
(*   租税公課 SozeiKoka          仮払消費税 KaribaraiShohizei              *)
(*   普通預金 FutsuYokin         埼玉県信用金庫 SaitamakenShinyoKinko      *)
(*   支払手数料 ShiharaiTesuryo  海源 Kaigen                               *)
(*   共-輸仕-消税 7.8% Kyo-Yushi-Shozei 7.8%                               *)
(*   共-輸仕-地税 2.2% Kyo-Yushi-Chizei 2.2%                               *)
(*   輸入許可書 YunyuKyokasho    請求書 Seikyusho                          *)
(*   関税 Kanzei  消費税 Shohizei  地方消費税 ChihoShohizei  支払 Shiharai *)
(*   輸入許可書番号: YunyuKyokashoBango:   請求書番号: SeikyushoBango:     *)
(*   追跡番号: TsuisekiBango:                                              *)
(*                                                                         *)
(* Cells.  A value held in a sheet cell or a Python variable is a record   *)
(* [k, n, s]: k = "int" (Python int n), "float" (a float whose value is    *)
(* the integer n), "frac" (a float with a fractional part whose truncation *)
(* toward zero is n, e.g. 7.9 is PyFrac(7)), "str" (the string s).           *)
(* Decimal amounts are whole yen, carried as integers.                     *)
(***************************************************************************)
EXTENDS Integers, Sequences, FiniteSets, Bags, TLC

(***************************************************************************)
(* Bounds of the model.                                                    *)
(***************************************************************************)
NumWriters == 2   \* write_* calls that may be in flight against one ledger
MaxDocs == 2      \* documents written in one behaviour of Spec
MaxRows == 2      \* rows already in the ledger when a behaviour starts

Writers == 1..NumWriters

VARIABLES
  sheet,            \* the ledger: rows 2.. of the sheet, each a sequence of cells
  pc,               \* per writer: where its current call stands
  entity,           \* per writer: the entity it constructed (or NoEntity)
  values_in_sheet,  \* per writer: local of write_*, column A as read
  transaction_no,   \* per writer: local of write_*
  values,           \* per writer: local of write_*, the rows built
  outcome,          \* per writer: how its last constructor / write_* call ended
  nDocs,            \* documents handed out so far
  readAt,           \* per document number: ledger length its write_* call read
  \* DownloadAndUploadUseCase.execute and main():
  documents,              \* local of execute: the downloaded documents
  spreadsheet_repository, \* TRUE iff the use case was given a ledger service
  step,                   \* where execute stands
  doc_index,                    \* position of the running for loop in documents
  skip_file_paths,        \* local of execute
  import_permit_dict,     \* local of execute: file name -> parsed entity
  invoice_dict,           \* local of execute: file name -> parsed entity
  import_permit_count,    \* local of execute
  invoice_count,          \* local of execute
  uploaded_count,         \* local of execute
  drive,                  \* the files on Google Drive
  local_files,            \* the downloaded files still on the local disk
  events,                 \* per document: what execute did for it, in order
  returned,               \* what execute returned
  reported,               \* the number main() logs as processed
  \* The PDF parsers:
  pdf,                    \* what the parser is given
  parsed,                 \* what parse returned or raised
  \* CreateAccountingFromInvoiceUseCase.execute:
  accounting,             \* where execute stands, the calls it made, its outcome
  \* Repeated runs of the program:
  run,                    \* the number of the run, and the documents the site offers
  \* Calls of the services on their own:
  upload,                 \* the last call of GoogleDriveUploadService, and Drive before it
  download                \* where PDFDownloader.download stands

ledgerVars == <<sheet, pc, entity, values_in_sheet, transaction_no, values, outcome, nDocs, readAt>>

useCaseVars == <<documents, spreadsheet_repository, step, doc_index, skip_file_paths, import_permit_dict, invoice_dict, import_permit_count, invoice_count, uploaded_count, drive, local_files, events, returned, reported>>

parserVars == <<pdf, parsed>>

callVars == <<upload, download>>

serviceVars == <<accounting, run, callVars>>

vars == <<ledgerVars, useCaseVars, parserVars, serviceVars>>

(***************************************************************************)
(* Cells and Python values.                                                *)
(***************************************************************************)
PyInt(n) == [k |-> "int", n |-> n, s |-> <<>>]
PyFloat(n) == [k |-> "float", n |-> n, s |-> <<>>]
PyFrac(n) == [k |-> "frac", n |-> n, s |-> <<>>]
PyStr(s) == [k |-> "str", n |-> 0, s |-> s]
E == PyStr(<<>>)

IsNumber(c) == c.k \in {"int", "float", "frac"}

\* The strings int() accepts, with their values (any other string: ValueError).
IntLiterals ==
  ("3" :> 3) @@ ("7" :> 7) @@ ("2" :> 2) @@ ("9" :> 9) @@ ("-5" :> -5)

\* int(x): [ok |-> FALSE] stands for ValueError / TypeError.
int_(c) ==
  IF IsNumber(c)
  THEN [ok |-> TRUE, v |-> c.n]
  ELSE IF Len(c.s) = 1 /\ c.s[1] \in DOMAIN IntLiterals
       THEN [ok |-> TRUE, v |-> IntLiterals[c.s[1]]]
       ELSE [ok |-> FALSE, v |-> 0]

\* float(Decimal): exact on whole-yen amounts.
float_(d) == PyFloat(d)

\* a + b on Python numbers: int + float is a float.
PyAdd(a, b) ==
  IF a.k = "int" /\ b.k = "int" THEN PyInt(a.n + b.n) ELSE PyFloat(a.n + b.n)

\* sum(iterable): starts from the int 0.
RECURSIVE PySumFrom(_, _, _)
PySumFrom(acc, xs, i) ==
  IF i > Len(xs) THEN acc ELSE PySumFrom(PyAdd(acc, xs[i]), xs, i + 1)

PySum(xs) == PySumFrom(PyInt(0), xs, 1)

(***************************************************************************)
(* Entities.                                                               *)
(***************************************************************************)
NoEntity == [type |-> "None"]

DocNumbers == <<"YP1", "YP2", "YP3", "YP4">>
DateStrings == <<"2025/10/23", "2025/10/24">>

\* date.strftime("%Y/%m/%d"); dates are day indices into DateStrings.
strftime(d) == PyStr(<<DateStrings[d]>>)

\* ImportPermit.__post_init__: "ok", or the ValueError raised.
ImportPermitPostInit(f) ==
  IF ~f.pdf_exists THEN "ValueError: pdf_path"
  ELSE IF f.total_amount < 0 THEN "ValueError: total_amount"
  ELSE IF f.customs_duty < 0 THEN "ValueError: customs_duty"
  ELSE IF f.consumption_tax < 0 THEN "ValueError: consumption_tax"
  ELSE IF f.local_consumption_tax < 0 THEN "ValueError: local_consumption_tax"
  ELSE "ok"

InvoicePostInitNoDateCheck(f) ==
  IF ~f.pdf_exists THEN "ValueError: pdf_path"
  ELSE IF f.total_amount < 0 THEN "ValueError: total_amount"
  ELSE "ok"

\* Invoice.__post_init__: "ok", or the ValueError raised.
InvoicePostInit(f) ==
  IF ~f.pdf_exists THEN "ValueError: pdf_path"
  ELSE IF f.total_amount < 0 THEN "ValueError: total_amount"
  ELSE IF f.issue_date > f.payment_due_date THEN "ValueError: issue_date"
  ELSE "ok"

ImportPermit(permit_number, issue_date, total_amount, customs_duty, consumption_tax, local_consumption_tax, subtotal, pdf_exists) ==
  [type |-> "ImportPermit", permit_number |-> permit_number,
   issue_date |-> issue_date, importer_name |-> "Importer",
   tracking_number |-> "TRK", total_amount |-> total_amount,
   customs_duty |-> customs_duty, consumption_tax |-> consumption_tax,
   local_consumption_tax |-> local_consumption_tax, subtotal |-> subtotal,
   items |-> <<>>, pdf_exists |-> pdf_exists]

Invoice(invoice_number, issue_date, total_amount, tax_amount, subtotal, payment_due_date, pdf_exists) ==
  [type |-> "Invoice", invoice_number |-> invoice_number,
   issue_date |-> issue_date, customer_name |-> "Customer",
   tracking_number |-> "TRK", total_amount |-> total_amount,
   tax_amount |-> tax_amount, subtotal |-> subtotal,
   payment_due_date |-> payment_due_date, items |-> <<>>,
   pdf_exists |-> pdf_exists]

(***************************************************************************)
(* GoogleSheetsService: the ledger read.                                   *)
(***************************************************************************)
\* values().get(range = "A2:A"): one row per sheet row, [] for an empty cell,
\* else the one cell of column A.
ColumnA(s) ==
  [i \in 1..Len(s) |-> IF Len(s[i]) = 0 THEN <<>> ELSE <<s[i][1]>>]

\* The loop over values_in_sheet: rows that are empty or whose cell int()
\* rejects are skipped (continue); the largest value above 0 is kept.
RECURSIVE ScanFrom(_, _, _)
ScanFrom(last, rows, i) ==
  IF i > Len(rows) THEN last
  ELSE IF Len(rows[i]) = 0 THEN ScanFrom(last, rows, i + 1)
  ELSE LET number_value == int_(rows[i][1]) IN
       IF ~number_value.ok THEN ScanFrom(last, rows, i + 1)
       ELSE IF number_value.v > last
            THEN ScanFrom(number_value.v, rows, i + 1)
            ELSE ScanFrom(last, rows, i + 1)

\* A scan that keeps the last parsable cell instead of the largest.
RECURSIVE ScanKeepLastFrom(_, _, _)
ScanKeepLastFrom(last, rows, i) ==
  IF i > Len(rows) THEN last
  ELSE IF Len(rows[i]) = 0 \/ ~int_(rows[i][1]).ok
       THEN ScanKeepLastFrom(last, rows, i + 1)
       ELSE ScanKeepLastFrom(int_(rows[i][1]).v, rows, i + 1)

LastTransactionNoKeepLast(rows) == ScanKeepLastFrom(0, rows, 1)

LastTransactionNo(rows) == ScanFrom(0, rows, 1)

NextTransactionNoSame(last_transaction_no) == last_transaction_no

NextTransactionNo(last_transaction_no) == last_transaction_no + 1

(***************************************************************************)
(* GoogleSheetsService.write_import_permit: the row builder.               *)
(***************************************************************************)
DebitEntry(account_name, tax_category, amount, summary, memo) ==
  [account_name |-> account_name, tax_category |-> tax_category,
   amount |-> amount, summary |-> summary, memo |-> memo]

SummaryBase(import_permit) == <<"YunyuKyokasho", import_permit.permit_number>>

MemoBase(import_permit) ==
  <<"YunyuKyokashoBango:", import_permit.permit_number,
    "TsuisekiBango:", import_permit.tracking_number>>

CustomsEntry(p) ==
  DebitEntry(<<"SozeiKoka">>, <<>>, float_(p.customs_duty),
             SummaryBase(p) \o <<"Kanzei">>, MemoBase(p) \o <<"(Kanzei)">>)

ConsumptionEntry(p) ==
  DebitEntry(<<"KaribaraiShohizei">>, <<"Kyo-Yushi-Shozei 7.8%">>,
             float_(p.consumption_tax),
             SummaryBase(p) \o <<"Shohizei">>, MemoBase(p) \o <<"(Shohizei)">>)

LocalEntry(p) ==
  DebitEntry(<<"KaribaraiShohizei">>, <<"Kyo-Yushi-Chizei 2.2%">>,
             float_(p.local_consumption_tax),
             SummaryBase(p) \o <<"ChihoShohizei">>,
             MemoBase(p) \o <<"(ChihoShohizei)">>)

\* Mutants of DebitEntries: legs in another order; legs for zero amounts too.
DebitEntriesLocalFirst(p) ==
  (IF p.local_consumption_tax > 0 THEN <<LocalEntry(p)>> ELSE <<>>)
  \o (IF p.customs_duty > 0 THEN <<CustomsEntry(p)>> ELSE <<>>)
  \o (IF p.consumption_tax > 0 THEN <<ConsumptionEntry(p)>> ELSE <<>>)

DebitEntriesNonNegative(p) ==
  (IF p.customs_duty >= 0 THEN <<CustomsEntry(p)>> ELSE <<>>)
  \o (IF p.consumption_tax >= 0 THEN <<ConsumptionEntry(p)>> ELSE <<>>)
  \o (IF p.local_consumption_tax >= 0 THEN <<LocalEntry(p)>> ELSE <<>>)

DebitEntries(p) ==
  (IF p.customs_duty > 0 THEN <<CustomsEntry(p)>> ELSE <<>>)
  \o (IF p.consumption_tax > 0 THEN <<ConsumptionEntry(p)>> ELSE <<>>)
  \o (IF p.local_consumption_tax > 0 THEN <<LocalEntry(p)>> ELSE <<>>)

\* Mutant of TotalDebitAmount: only the first leg is counted.
TotalDebitAmountFirstOnly(debit_entries) ==
  IF Len(debit_entries) = 0 THEN PyInt(0) ELSE debit_entries[1].amount

TotalDebitAmount(debit_entries) ==
  PySum([i \in 1..Len(debit_entries) |-> debit_entries[i].amount])

\* Mutant of CurrentTransactionNo: the number advances with every row.
CurrentTransactionNoPerRow(no, idx) == no + idx - 1

CurrentTransactionNo(no, idx) == no

\* Mutant of ImportPermitDebitRow: the unused credit amount written as 0.
ImportPermitDebitRowZeroCredit(no, date_str, e) ==
  << PyInt(no), date_str, PyStr(e.account_name), E, E, E,
     PyStr(e.tax_category), E, e.amount, PyInt(0),
     E, E, E, E, E, E, PyInt(0), PyInt(0),
     PyStr(e.summary), PyStr(e.memo), E, E, E, E, E, E, E >>

\* The 27 cells of a debit row of an import permit.
ImportPermitDebitRow(no, date_str, e) ==
  << PyInt(no), date_str, PyStr(e.account_name), E, E, E,
     PyStr(e.tax_category), E, e.amount, PyInt(0),
     E, E, E, E, E, E, E, PyInt(0),
     PyStr(e.summary), PyStr(e.memo), E, E, E, E, E, E, E >>

\* Mutant of ImportPermitCreditRow: the invoice builder's sub-account.
ImportPermitCreditRowKaigen(no, date_str, total_debit_amount, p) ==
  << PyInt(no), date_str, E, E, E, E, E, E, E, PyInt(0),
     PyStr(<<"FutsuYokin">>), PyStr(<<"Kaigen">>), E, E, E, E,
     total_debit_amount, PyInt(0),
     PyStr(SummaryBase(p) \o <<"Shiharai">>),
     PyStr(MemoBase(p) \o <<"(Shiharai)">>), E, E, E, E, E, E, E >>

\* The 27 cells of the credit row of an import permit.
ImportPermitCreditRow(no, date_str, total_debit_amount, p) ==
  << PyInt(no), date_str, E, E, E, E, E, E, E, PyInt(0),
     PyStr(<<"FutsuYokin">>), PyStr(<<"SaitamakenShinyoKinko">>), E, E, E, E,
     total_debit_amount, PyInt(0),
     PyStr(SummaryBase(p) \o <<"Shiharai">>),
     PyStr(MemoBase(p) \o <<"(Shiharai)">>), E, E, E, E, E, E, E >>

\* values, as write_import_permit builds it.
ImportPermitValues(p, no) ==
  LET date_str == strftime(p.issue_date)
      debit_entries == DebitEntries(p)
      total_debit_amount == TotalDebitAmount(debit_entries)
  IN  [idx \in 1..Len(debit_entries) |->
         ImportPermitDebitRow(CurrentTransactionNo(no, idx), date_str,
                              debit_entries[idx])]
      \o (IF total_debit_amount.n > 0
          THEN <<ImportPermitCreditRow(no, date_str, total_debit_amount, p)>>
          ELSE <<>>)

(***************************************************************************)
(* GoogleSheetsService.write_invoice: the row builder.                     *)
(***************************************************************************)
InvoiceSummaryBase(invoice) == <<"Seikyusho", invoice.invoice_number>>

InvoiceMemoBase(invoice) ==
  <<"SeikyushoBango:", invoice.invoice_number,
    "TsuisekiBango:", invoice.tracking_number>>

InvoiceDebitRow(no, date_str, total_amount, inv) ==
  << PyInt(no), date_str, PyStr(<<"ShiharaiTesuryo">>), E, E, E, E, E,
     total_amount, PyInt(0),
     E, E, E, E, E, E, E, PyInt(0),
     PyStr(InvoiceSummaryBase(inv)), PyStr(InvoiceMemoBase(inv)),
     E, E, E, E, E, E, E >>

InvoiceCreditRow(no, date_str, total_amount, inv) ==
  << PyInt(no), date_str, E, E, E, E, E, E, E, PyInt(0),
     PyStr(<<"FutsuYokin">>), PyStr(<<"Kaigen">>), E, E, E, E,
     total_amount, PyInt(0),
     PyStr(InvoiceSummaryBase(inv) \o <<"Shiharai">>),
     PyStr(InvoiceMemoBase(inv) \o <<"(Shiharai)">>), E, E, E, E, E, E, E >>

\* Mutant of InvoiceValues: the debit leg alone.
InvoiceValuesDebitOnly(inv, no) ==
  LET date_str == strftime(inv.issue_date)
      total_amount == float_(inv.total_amount)
  IN  IF total_amount.n > 0
      THEN <<InvoiceDebitRow(no, date_str, total_amount, inv)>>
      ELSE <<>>

\* values, as write_invoice builds it.
InvoiceValues(inv, no) ==
  LET date_str == strftime(inv.issue_date)
      total_amount == float_(inv.total_amount)
  IN  IF total_amount.n > 0
      THEN <<InvoiceDebitRow(no, date_str, total_amount, inv),
             InvoiceCreditRow(no, date_str, total_amount, inv)>>
      ELSE <<>>

(***************************************************************************)
(* GoogleSheetsService: the ledger append (one request, INSERT_ROWS).      *)
(***************************************************************************)
\* Mutant of AppendRows: one insertion per row, each below the header.
RECURSIVE InsertEachAtTop(_, _, _)
InsertEachAtTop(s, rows, i) ==
  IF i > Len(rows) THEN s ELSE InsertEachAtTop(<<rows[i]>> \o s, rows, i + 1)

AppendRowsEachAtTop(s, rows) == InsertEachAtTop(s, rows, 1)

AppendRows(s, rows) == s \o rows

(***************************************************************************)
(* Operations.  A writer is one caller of the entity constructors and of   *)
(* GoogleSheetsService.write_*; several writers are several program runs   *)
(* (or tasks) working against the same spreadsheet.                        *)
(*   pc: "idle" -> "constructed" -> "built" -> "returned", or "raised".    *)
(* The service object exists (its constructor resolved sheet_name or       *)
(* raised), so the not-initialised checks of write_* never fire.           *)
(***************************************************************************)
Idle(w) == pc[w] \in {"idle", "returned", "raised"}

DocNumberOf(e) ==
  IF e.type = "ImportPermit" THEN e.permit_number ELSE e.invoice_number

\* The dataclass constructor: __post_init__ raises, or the entity exists.
Construct(w, f, r) ==
  /\ nDocs' = nDocs + 1
  /\ entity' = [entity EXCEPT ![w] = IF r = "ok" THEN f ELSE NoEntity]
  /\ pc' = [pc EXCEPT ![w] = IF r = "ok" THEN "constructed" ELSE "raised"]
  /\ outcome' = [outcome EXCEPT ![w] = r]
  /\ values_in_sheet' = [values_in_sheet EXCEPT ![w] = <<>>]
  /\ transaction_no' = [transaction_no EXCEPT ![w] = 0]
  /\ values' = [values EXCEPT ![w] = <<>>]
  /\ UNCHANGED <<sheet, readAt, useCaseVars, parserVars, serviceVars>>

NewImportPermit(w, Customs, Consumption, Local, Other, Exists, maxDocs) ==
  /\ Idle(w)
  /\ nDocs < maxDocs
  /\ \E customs_duty \in Customs, consumption_tax \in Consumption,
        local_consumption_tax \in Local, total_amount \in Other,
        subtotal \in Other, pdf_exists \in Exists :
       LET f == ImportPermit(DocNumbers[nDocs + 1], 1, total_amount,
                             customs_duty, consumption_tax,
                             local_consumption_tax, subtotal, pdf_exists)
       IN  Construct(w, f, ImportPermitPostInit(f))

NewInvoice(w, Totals, Other, Dates, Exists, maxDocs) ==
  /\ Idle(w)
  /\ nDocs < maxDocs
  /\ \E total_amount \in Totals, tax_amount \in Other, subtotal \in Other,
        issue_date \in Dates, payment_due_date \in Dates,
        pdf_exists \in Exists :
       LET f == Invoice(DocNumbers[nDocs + 1], issue_date, total_amount,
                        tax_amount, subtotal, payment_due_date, pdf_exists)
       IN  Construct(w, f, InvoicePostInit(f))

\* write_*: values().get, the scan, the rows; "if not values: return".
ReadAndBuild(w, rows, no, v) ==
  /\ values_in_sheet' = [values_in_sheet EXCEPT ![w] = rows]
  /\ transaction_no' = [transaction_no EXCEPT ![w] = no]
  /\ values' = [values EXCEPT ![w] = v]
  /\ readAt' = [readAt EXCEPT ![DocNumberOf(entity[w])] = Len(sheet)]
  /\ pc' = [pc EXCEPT ![w] = IF Len(v) = 0 THEN "returned" ELSE "built"]
  /\ outcome' = [outcome EXCEPT ![w] =
                   IF Len(v) = 0 THEN "nothing written" ELSE "building"]
  /\ UNCHANGED <<sheet, entity, nDocs, useCaseVars, parserVars, serviceVars>>

WriteImportPermitRead(w) ==
  /\ pc[w] = "constructed"
  /\ entity[w].type = "ImportPermit"
  /\ LET rows == ColumnA(sheet)
         no == NextTransactionNo(LastTransactionNo(rows))
     IN  ReadAndBuild(w, rows, no, ImportPermitValues(entity[w], no))

WriteInvoiceRead(w) ==
  /\ pc[w] = "constructed"
  /\ entity[w].type = "Invoice"
  /\ LET rows == ColumnA(sheet)
         no == NextTransactionNo(LastTransactionNo(rows))
     IN  ReadAndBuild(w, rows, no, InvoiceValues(entity[w], no))

\* write_*: values().append of the whole block, then return.
WriteAppend(w, type) ==
  /\ pc[w] = "built"
  /\ entity[w].type = type
  /\ sheet' = AppendRows(sheet, values[w])
  /\ pc' = [pc EXCEPT ![w] = "returned"]
  /\ outcome' = [outcome EXCEPT ![w] = "written"]
  /\ UNCHANGED <<entity, values_in_sheet, transaction_no, values, nDocs, readAt>>
  /\ UNCHANGED <<useCaseVars, parserVars, serviceVars>>

WriteImportPermitAppend(w) == WriteAppend(w, "ImportPermit")

WriteInvoiceAppend(w) == WriteAppend(w, "Invoice")

\* write_*: one of the two requests raises HttpError, which is re-raised.
RaiseHttpError(w, at) ==
  /\ pc[w] = at
  /\ pc' = [pc EXCEPT ![w] = "raised"]
  /\ outcome' = [outcome EXCEPT ![w] = "HttpError"]
  /\ UNCHANGED <<sheet, entity, values_in_sheet, transaction_no, values,
                 nDocs, readAt, useCaseVars, parserVars, serviceVars>>

ReadHttpError(w) == RaiseHttpError(w, "constructed")

AppendHttpError(w) == RaiseHttpError(w, "built")

(***************************************************************************)
(* Strings of the parsers.  Where a parser looks inside a string, the      *)
(* string is the sequence of its characters; "JPY" is the one character ¥, *)
(* "EN" the one character 円, "x" a letter, ":" the full-width colon ：.   *)
(* None is Python's None (a JSON null, an empty pdfplumber cell).          *)
(***************************************************************************)
None == [k |-> "None", n |-> 0, s |-> <<>>]

\* str.replace(c, "").
Replace(s, c) == SelectSeq(s, LAMBDA x : x # c)

\* str.strip().
Strip(s) ==
  LET Black == {i \in 1..Len(s) : s[i] # " "}
  IN  IF Black = {} THEN <<>>
      ELSE SubSeq(s, CHOOSE i \in Black : \A j \in Black : i <= j,
                     CHOOSE i \in Black : \A j \in Black : i >= j)

DigitValue == ("0" :> 0) @@ ("1" :> 1) @@ ("3" :> 3) @@ ("5" :> 5)

IsDigits(s) == Len(s) > 0 /\ \A i \in 1..Len(s) : s[i] \in DOMAIN DigitValue

RECURSIVE DigitsValue(_)
DigitsValue(s) ==
  IF Len(s) = 0 THEN 0
  ELSE 10 * DigitsValue(SubSeq(s, 1, Len(s) - 1)) + DigitValue[s[Len(s)]]

\* Decimal(s) over these characters: surrounding whitespace is ignored, then
\* an optional sign and digits; anything else raises InvalidOperation
\* (ok = FALSE).
DecimalOfStripped(s) ==
  IF IsDigits(s) THEN [ok |-> TRUE, v |-> DigitsValue(s)]
  ELSE IF Len(s) > 1 /\ s[1] = "-" /\ IsDigits(Tail(s)) THEN [ok |-> TRUE, v |-> 0 - DigitsValue(Tail(s))]
  ELSE IF Len(s) > 1 /\ s[1] = "+" /\ IsDigits(Tail(s)) THEN [ok |-> TRUE, v |-> DigitsValue(Tail(s))]
  ELSE [ok |-> FALSE, v |-> 0]

Decimal(s) == DecimalOfStripped(Strip(s))

(***************************************************************************)
(* InvoiceParser (invoice_parser.py).                                      *)
(* The page text is a sequence of pieces [label, kind, s, d]: a label (or *)
(* "") followed by a code, a name or an amount (the string s) or by a     *)
(* date (the day index d).                                                 *)
(*   請求書[ Seikyusho[        お客様名： OkyakusamaMei:                   *)
(*   追跡番号： TsuisekiBango:  お支払い期限： OshiharaiKigen:             *)
(*   小計： Shokei:   消費税額10％： Shohizeigaku10%:   合計金額： GokeiKingaku: *)
(*   請求項目 SeikyuKomoku     件 Ken                                      *)
(* A table is a sequence of rows, a row a sequence of cells, a cell a      *)
(* PyStr of characters or None.                                            *)
(* The ValueError messages are named by what could not be extracted:       *)
(*   請求書番号 / 請求日 / お客様名 / 追跡番号 / 支払期限 / 請求項目 /     *)
(*   合計金額 を抽出できませんでした, wrapped in 請求書の解析に失敗しました*)
(***************************************************************************)
Piece(label, kind, s, d) == [label |-> label, kind |-> kind, s |-> s, d |-> d]

Found(v) == [ok |-> TRUE, v |-> v]

NotFound == [ok |-> FALSE, v |-> 0]

\* re.search: the first piece of the text that matches.
Search(text, Matches(_)) ==
  LET M == {i \in 1..Len(text) : Matches(text[i])}
  IN  IF M = {} THEN 0 ELSE CHOOSE i \in M : \A j \in M : i <= j

_extract_invoice_number(text) ==
  LET i == Search(text, LAMBDA p : p.label = "Seikyusho[" /\ p.kind = "code")
  IN  IF i = 0 THEN NotFound ELSE Found(text[i].s)

_extract_issue_dateLabelled(text) ==
  LET i == Search(text, LAMBDA p : p.label = "" /\ p.kind = "date")
  IN  IF i = 0 THEN NotFound ELSE Found(text[i].d)

\* The pattern has no label: the first date anywhere in the text.
_extract_issue_date(text) ==
  LET i == Search(text, LAMBDA p : p.kind = "date")
  IN  IF i = 0 THEN NotFound ELSE Found(text[i].d)

_extract_customer_name(text) ==
  LET i == Search(text, LAMBDA p : p.label = "OkyakusamaMei:" /\ p.kind = "name")
  IN  IF i = 0 THEN NotFound ELSE Found(text[i].s)

_extract_tracking_number(text) ==
  LET i == Search(text, LAMBDA p : p.label = "TsuisekiBango:" /\ p.kind = "code")
  IN  IF i = 0 THEN NotFound ELSE Found(text[i].s)

_extract_payment_due_date(text) ==
  LET i == Search(text, LAMBDA p : p.label = "OshiharaiKigen:" /\ p.kind = "date")
  IN  IF i = 0 THEN NotFound ELSE Found(text[i].d)

\* _parse_amount: ¥ and , removed, stripped; 0 when Decimal raises.
_parse_amount(amount_str) ==
  LET d == Decimal(Strip(Replace(Replace(amount_str, "JPY"), ",")))
  IN  IF d.ok THEN [ok |-> TRUE, v |-> d.v] ELSE [ok |-> TRUE, v |-> 0]

\* ¥([\d,]+): the run of digits and commas after a leading ¥.
RECURSIVE DigitRun(_)
DigitRun(s) ==
  IF Len(s) > 0 /\ Head(s) \in DOMAIN DigitValue \cup {","}
    THEN <<Head(s)>> \o DigitRun(Tail(s))
    ELSE <<>>

MatchesAmount(p, label) ==
  /\ p.label = label
  /\ p.kind = "amount"
  /\ Len(p.s) > 1
  /\ p.s[1] = "JPY"
  /\ DigitRun(Tail(p.s)) # <<>>

ExtractAmount(text, label) ==
  LET i == Search(text, LAMBDA p : MatchesAmount(p, label))
  IN  IF i = 0 THEN NotFound
      ELSE Found(_parse_amount(<<"JPY">> \o DigitRun(Tail(text[i].s))).v)

_extract_subtotal(text) ==
  LET m == ExtractAmount(text, "Shokei:") IN IF m.ok THEN m.v ELSE 0

_extract_tax_amount(text) ==
  LET m == ExtractAmount(text, "Shohizeigaku10%:") IN IF m.ok THEN m.v ELSE 0

_extract_total_amount(text) == ExtractAmount(text, "GokeiKingaku:")

\* "if cell": neither None nor the empty string.
Truthy(cell) == cell # None /\ cell.s # <<>>

\* InvoiceItem / ImportPermitItem __post_init__: "ok" or the ValueError.
ItemPostInit(item) ==
  IF item.item_name = <<>> THEN "ValueError: item_name"
  ELSE IF item.amount < 0 THEN "ValueError: amount"
  ELSE IF item.quantity < 0 THEN "ValueError: quantity"
  ELSE "ok"

InvoiceItem(item_name, amount, quantity, unit) ==
  [item_name |-> item_name, amount |-> amount, quantity |-> quantity, unit |-> unit]

\* The first row with a cell containing 請求項目, 0 for None.
header_row(table) ==
  LET H == {i \in 1..Len(table) : \E c \in 1..Len(table[i]) : Truthy(table[i][c]) /\ \E k \in 1..Len(table[i][c].s) : table[i][c].s[k] = "SeikyuKomoku"}
  IN  IF H = {} THEN 0 ELSE CHOOSE i \in H : \A j \in H : i <= j

\* "if not row or len(row) < 3: continue".
RowIsReadAllCells(row) == Len(row) >= 3 /\ \A c \in 1..3 : Truthy(row[c])

RowIsRead(row) == Len(row) >= 3

\* The item fields read from one row of at least three cells.
RowItem(row) ==
  LET stripped == IF Truthy(row[1]) THEN Strip(row[1].s) ELSE <<>>
      item_name == IF Len(stripped) > 0 /\ stripped[Len(stripped)] = ":" THEN SubSeq(stripped, 1, Len(stripped) - 1) ELSE stripped
      amount_str == IF Truthy(row[2]) THEN Strip(row[2].s) ELSE <<"JPY", "0">>
      quantity_str == IF Truthy(row[3]) THEN Strip(row[3].s) ELSE <<"1">>
      unit == IF Len(row) > 3 /\ Truthy(row[4]) THEN Strip(row[4].s) ELSE <<"Ken">>
      quantity == IF Decimal(quantity_str).ok THEN Decimal(quantity_str).v ELSE 1
  IN  InvoiceItem(item_name, _parse_amount(amount_str).v, quantity, unit)

\* The rows below the header of one table, none for a table without one.
DataRows(table) ==
  IF header_row(table) = 0 THEN <<>>
  ELSE SubSeq(table, header_row(table) + 1, Len(table))

RECURSIVE Flatten(_)
Flatten(seqs) == IF Len(seqs) = 0 THEN <<>> ELSE Head(seqs) \o Flatten(Tail(seqs))

\* "for table in tables": every table is gone through.
TablesRead(tables) == tables

ItemRowsKeepNameless(tables) ==
  SelectSeq(Flatten([t \in 1..Len(TablesRead(tables)) |-> DataRows(TablesRead(tables)[t])]), RowIsRead)

\* The rows that reach "if item_name:" with a non-empty name, in order.
ItemRows(tables) ==
  SelectSeq(Flatten([t \in 1..Len(TablesRead(tables)) |-> DataRows(TablesRead(tables)[t])]),
            LAMBDA row : RowIsRead(row) /\ RowItem(row).item_name # <<>>)

\* _extract_invoice_items: the items, or the ValueError raised.
_extract_invoice_items(tables) ==
  LET rows == ItemRows(tables)
      items == [i \in 1..Len(rows) |-> RowItem(rows[i])]
      Bad == {i \in 1..Len(items) : ItemPostInit(items[i]) # "ok"}
  IN  IF Len(tables) = 0 THEN [ok |-> FALSE, v |-> <<>>, error |-> "SeikyuKomoku table not found"]
      ELSE IF Bad # {} THEN [ok |-> FALSE, v |-> <<>>, error |-> ItemPostInit(items[CHOOSE i \in Bad : \A j \in Bad : i <= j])]
      ELSE IF Len(items) = 0 THEN [ok |-> FALSE, v |-> <<>>, error |-> "SeikyuKomoku"]
      ELSE [ok |-> TRUE, v |-> items, error |-> ""]

Raised(error) == [status |-> "ValueError", error |-> error]

\* "except Exception as e: raise ValueError(f"請求書の解析に失敗しました: {e}")".
Wrapped(error) == Raised(<<"SeikyushoNoKaisekiNiShippai:", error>>)

\* InvoiceParser.parse on a file [kind, exists, pages, text, tables].
InvoiceParser_parse(file) ==
  IF ~file.exists THEN Raised(<<"PDF file does not exist">>)
  ELSE IF file.pages = 0 THEN Wrapped("no pages")
  ELSE IF Len(file.text) = 0 THEN Wrapped("no text")
  ELSE
    LET text == file.text
        invoice_number == _extract_invoice_number(text)
        issue_date == _extract_issue_date(text)
        customer_name == _extract_customer_name(text)
        tracking_number == _extract_tracking_number(text)
        payment_due_date == _extract_payment_due_date(text)
        items == _extract_invoice_items(file.tables)
        total_amount == _extract_total_amount(text)
        invoice == [Invoice(invoice_number.v, issue_date.v, total_amount.v, _extract_tax_amount(text), _extract_subtotal(text), payment_due_date.v, TRUE) EXCEPT !.customer_name = customer_name.v, !.tracking_number = tracking_number.v, !.items = items.v]
    IN  IF ~invoice_number.ok THEN Wrapped("SeikyushoBango")
        ELSE IF ~issue_date.ok THEN Wrapped("Seikyubi")
        ELSE IF ~customer_name.ok THEN Wrapped("OkyakusamaMei")
        ELSE IF ~tracking_number.ok THEN Wrapped("TsuisekiBango")
        ELSE IF ~payment_due_date.ok THEN Wrapped("ShiharaiKigen")
        ELSE IF ~items.ok THEN Wrapped(items.error)
        ELSE IF ~total_amount.ok THEN Wrapped("GokeiKingaku")
        ELSE IF InvoicePostInit(invoice) # "ok" THEN Wrapped(InvoicePostInit(invoice))
        ELSE [status |-> "ok", invoice |-> invoice]

\* The parser is called on the file and returns or raises.
InvoiceParse ==
  /\ parsed.status = "none"
  /\ pdf.kind = "invoice"
  /\ parsed' = InvoiceParser_parse(pdf)
  /\ UNCHANGED <<pdf, ledgerVars, useCaseVars, serviceVars>>

(***************************************************************************)
(* GeminiImportPermitParser: the post-processing of the oracle's JSON      *)
(* (gemini_import_permit_parser.py).  The JSON object is a record of       *)
(* cells; Absent marks a key that is not in the object, None a null.       *)
(*   輸入許可書の解析に失敗しました YunyuKyokashoNoKaisekiNiShippai:        *)
(***************************************************************************)
Absent == [k |-> "absent", n |-> 0, s |-> <<>>]

\* dict.get(key, default).
Get(cell, default) == IF cell = Absent THEN default ELSE cell

\* str(value) of a string or of None.
str(cell) == IF cell = None THEN <<"None">> ELSE cell.s

\* _parse_decimal(value, field_name, default); data.get(key) gives None for
\* an absent key.
_parse_decimal(value, field_name, default) ==
  IF value.k = "int" THEN [ok |-> TRUE, v |-> value.n, error |-> <<>>]
  ELSE IF value.k \in {"str", "None", "absent"} THEN
    LET raw == IF value.k = "str" THEN value.s ELSE default
        stripped == Replace(Replace(Replace(Strip(raw), ","), "JPY"), "EN")
        cleaned == IF stripped \in {<<>>, <<"-">>, <<"-", "-">>} THEN default ELSE stripped
        d == Decimal(cleaned)
    IN  IF d.ok THEN [ok |-> TRUE, v |-> d.v, error |-> <<>>]
        ELSE [ok |-> FALSE, v |-> 0, error |-> <<field_name, "wo suchi ni henkan dekimasen">>]
  ELSE [ok |-> FALSE, v |-> 0, error |-> <<field_name, "no atai ga fusei desu">>]

\* datetime.strptime(s, "%Y-%m-%d").date(): the day index, 0 when it raises.
IsoDates == ("2025-10-23" :> 1) @@ ("2025-10-24" :> 2)

strptime(cell) ==
  IF cell.k = "str" /\ Len(cell.s) = 1 /\ cell.s[1] \in DOMAIN IsoDates THEN IsoDates[cell.s[1]] ELSE 0

\* One entry of data["items"]: the item, or the ValueError raised.
PermitItem(item_data) ==
  LET amount == _parse_decimal(item_data.amount, "items.amount", <<"0">>)
      quantity == _parse_decimal(item_data.quantity, "items.quantity", <<"1">>)
      item == InvoiceItem(str(Get(item_data.item_name, PyStr(<<>>))), amount.v, quantity.v, str(Get(item_data.unit, PyStr(<<"Ken">>))))
  IN  IF ~amount.ok THEN [ok |-> FALSE, v |-> item, error |-> amount.error]
      ELSE IF ~quantity.ok THEN [ok |-> FALSE, v |-> item, error |-> quantity.error]
      ELSE IF ItemPostInit(item) # "ok" THEN [ok |-> FALSE, v |-> item, error |-> <<ItemPostInit(item)>>]
      ELSE [ok |-> TRUE, v |-> item, error |-> <<>>]

WrappedPermit(error) == Raised(<<"YunyuKyokashoNoKaisekiNiShippai:">> \o error)

(* The oracle's response text is a sequence of tokens [t, data]: "FENCE" the  *)
(* fence, "json" the word json, "nl" a line break, "x" a letter of prose,   *)
(* "{" and "}" the braces of a JSON object, "q" a double quote, and         *)
(* "fields" the key/value pairs of the object, which are carried in data.   *)
(***************************************************************************)
NoData == [none |-> TRUE]

Tok(t) == [t |-> t, data |-> NoData]

Obj(data) == [t |-> "fields", data |-> data]

\* str.strip() on a response.
StripTokens(text) ==
  LET Black == {i \in 1..Len(text) : text[i].t # "nl"}
  IN  IF Black = {} THEN <<>>
      ELSE SubSeq(text, CHOOSE i \in Black : \A j \in Black : i <= j, CHOOSE i \in Black : \A j \in Black : i >= j)

\* text.find("FENCE", start): the position of the first fence at or after
\* start, 0 when there is none (Python's -1).
FindFence(text, start) ==
  LET At == {i \in start..Len(text) : text[i].t = "FENCE"}
  IN  IF At = {} THEN 0 ELSE CHOOSE i \in At : \A j \in At : i <= j

\* text.find(fence + "json").
FindFenceJson(text) ==
  LET At == {i \in 1..Len(text) - 1 : text[i].t = "FENCE" /\ text[i + 1].t = "json"}
  IN  IF At = {} THEN 0 ELSE CHOOSE i \in At : \A j \in At : i <= j

\* text[:-1]: the last character is cut; a longer token is left broken.
DropLastChar(text) ==
  IF Len(text) = 0 THEN <<>>
  ELSE IF text[Len(text)].t \in {"{", "}", "x", "q", "nl"} THEN SubSeq(text, 1, Len(text) - 1)
  ELSE SubSeq(text, 1, Len(text) - 1) \o <<Tok("?")>>

\* response_text[json_start:json_end].strip(), json_end = find("FENCE", json_start).
Between(text, json_start) ==
  IF FindFence(text, json_start) # 0 THEN StripTokens(SubSeq(text, json_start, FindFence(text, json_start) - 1))
  ELSE StripTokens(DropLastChar(SubSeq(text, json_start, Len(text))))

\* The JSON text taken out of the stripped response.
json_text(response_text) ==
  IF FindFenceJson(response_text) # 0 THEN Between(response_text, FindFenceJson(response_text) + 2)
  ELSE IF FindFence(response_text, 1) # 0 THEN Between(response_text, FindFence(response_text, 1) + 1)
  ELSE response_text

\* json.loads: an object, with or without a string value that holds a fence
\* ahead of its other pairs; line breaks between tokens are skipped.  Any
\* other text raises JSONDecodeError (ok = FALSE).
json_loads(text) ==
  LET tokens == SelectSeq(text, LAMBDA token : token.t # "nl")
      kinds == [i \in 1..Len(tokens) |-> tokens[i].t]
  IN  IF kinds = <<"{", "fields", "}">> THEN [ok |-> TRUE, data |-> tokens[2].data]
      ELSE IF kinds = <<"{", "q", "FENCE", "q", "fields", "}">> THEN [ok |-> TRUE, data |-> tokens[5].data]
      ELSE [ok |-> FALSE, data |-> NoData]

\* The post-processing of the decoded object: the ImportPermit, or the
\* ValueError raised.
PermitFromData(data) ==
    LET item_list == IF data.items.present THEN data.items.list ELSE <<>>
        items == [i \in 1..Len(item_list) |-> PermitItem(item_list[i])]
        Bad == {i \in 1..Len(items) : ~items[i].ok}
        issue_date_str == Get(data.issue_date, PyStr(<<>>))
        total_amount == _parse_decimal(data.total_amount, "total_amount", <<"0">>)
        customs_duty == _parse_decimal(data.customs_duty, "customs_duty", <<"0">>)
        consumption_tax == _parse_decimal(data.consumption_tax, "consumption_tax", <<"0">>)
        local_consumption_tax == _parse_decimal(data.local_consumption_tax, "local_consumption_tax", <<"0">>)
        subtotal == _parse_decimal(data.subtotal, "subtotal", <<"0">>)
        import_permit == [ImportPermit(str(Get(data.permit_number, PyStr(<<>>))), strptime(issue_date_str), total_amount.v, customs_duty.v, consumption_tax.v, local_consumption_tax.v, subtotal.v, TRUE) EXCEPT !.importer_name = str(Get(data.importer_name, PyStr(<<>>))), !.tracking_number = str(Get(data.tracking_number, PyStr(<<>>))), !.items = [i \in 1..Len(items) |-> items[i].v]]
    IN  IF Bad # {} THEN WrappedPermit(items[CHOOSE i \in Bad : \A j \in Bad : i <= j].error)
        ELSE IF ~Truthy(issue_date_str) THEN WrappedPermit(<<"issue_date: could not be extracted">>)
        ELSE IF strptime(issue_date_str) = 0 THEN WrappedPermit(<<"issue_date: does not match format">>)
        ELSE IF ~total_amount.ok THEN WrappedPermit(total_amount.error)
        ELSE IF ~customs_duty.ok THEN WrappedPermit(customs_duty.error)
        ELSE IF ~consumption_tax.ok THEN WrappedPermit(consumption_tax.error)
        ELSE IF ~local_consumption_tax.ok THEN WrappedPermit(local_consumption_tax.error)
        ELSE IF ~subtotal.ok THEN WrappedPermit(subtotal.error)
        ELSE IF ImportPermitPostInit(import_permit) # "ok" THEN WrappedPermit(<<ImportPermitPostInit(import_permit)>>)
        ELSE [status |-> "ok", import_permit |-> import_permit]

\* GeminiImportPermitParser.parse: file = [kind, exists, response], response
\* the text the oracle answers with.
GeminiImportPermitParser_parse(file) ==
  IF ~file.exists THEN Raised(<<"PDF file does not exist">>)
  ELSE LET decoded == json_loads(json_text(StripTokens(file.response)))
       IN  IF ~decoded.ok THEN WrappedPermit(<<"JSON parse error">>)
           ELSE PermitFromData(decoded.data)

\* The parser is called on the file and returns or raises.
GeminiParse ==
  /\ parsed.status = "none"
  /\ pdf.kind = "permit"
  /\ parsed' = GeminiImportPermitParser_parse(pdf)
  /\ UNCHANGED <<pdf, ledgerVars, useCaseVars, serviceVars>>

(***************************************************************************)
(* CreateAccountingFromInvoiceUseCase.execute                              *)
(* (create_accounting_from_invoice_use_case.py).  accounting.pc:           *)
(*   "start" -> "awaiting" (create_transaction was called and is awaited)  *)
(*   -> "returned", or "raised" from either step.                          *)
(* accounting.calls are the arguments of the create_transaction calls,     *)
(* accounting.reply what the repository answered, accounting.result and    *)
(* accounting.error what execute returned or raised.                       *)
(***************************************************************************)
NoError == [status |-> "none", error |-> <<>>]

NoAccounting == [pc |-> "none", calls |-> <<>>, reply |-> "", result |-> "", error |-> NoError]

\* Mutant of CallsAfterParse: the repository is called whatever parse did.
CallsAfterParseAlways(parse_result, calls) == Append(calls, IF parse_result.status = "ok" THEN parse_result.invoice ELSE NoEntity)

\* Step 2 is reached only when parse returned; it calls create_transaction
\* with the parsed invoice.
CallsAfterParse(parse_result, calls) == IF parse_result.status = "ok" THEN Append(calls, parse_result.invoice) ELSE calls

\* Step 1, and the call of step 2: parse raises (the except clauses log and
\* re-raise), or create_transaction(invoice) is called and awaited.
ExecuteParse ==
  /\ accounting.pc = "start"
  /\ pdf.kind = "invoice"
  /\ parsed' = InvoiceParser_parse(pdf)
  /\ accounting' = [accounting EXCEPT !.pc = IF parsed'.status = "ok" THEN "awaiting" ELSE "raised",
                                      !.calls = CallsAfterParse(parsed', @),
                                      !.error = IF parsed'.status = "ok" THEN NoError ELSE parsed']
  /\ UNCHANGED <<pdf, run, callVars, ledgerVars, useCaseVars>>

\* create_transaction returns an id, which execute returns.
CreateTransactionReturns(Ids) ==
  /\ accounting.pc = "awaiting"
  /\ \E transaction_id \in Ids :
       accounting' = [accounting EXCEPT !.pc = "returned", !.reply = transaction_id, !.result = transaction_id]
  /\ UNCHANGED <<run, callVars, parserVars, ledgerVars, useCaseVars>>

\* create_transaction raises, and execute re-raises the same error.
CreateTransactionRaises(Errors) ==
  /\ accounting.pc = "awaiting"
  /\ \E e \in Errors :
       accounting' = [accounting EXCEPT !.pc = "raised", !.reply = e.status, !.error = e]
  /\ UNCHANGED <<run, callVars, parserVars, ledgerVars, useCaseVars>>

(***************************************************************************)
(* DownloadAndUploadUseCase.execute and the Google Drive upload service.   *)
(*   請求書 Seikyusho, 輸入許可書 YunyuKyokasho, ダウンロード Daunrodo.    *)
(* A file path is the file's name.  The content of a document is what the  *)
(* parser of its type makes of the file: an entity, or NoEntity when parse *)
(* raises ValueError.                                                      *)
(*   step: "init" -> "accounting" -> "upload" -> "returned" -> "reported",  *)
(*   or "raised".                                                          *)
(***************************************************************************)
MaxDocuments == 2   \* documents one download returns

Document(document_type, name, content, download_date) ==
  [document_type |-> document_type, name |-> name, content |-> content,
   download_date |-> download_date]

\* ImportPermitParser.parse / InvoiceParser.parse on the file of a document.
parse(document) == document.content

\* GoogleDriveCredentials.get_folder_id.
\* Mutant of get_folder_id: a type without a folder gets the invoice folder.
get_folder_idAnyType(document_type) ==
  IF document_type = "YunyuKyokasho" THEN "import_permit_folder_id" ELSE "invoice_folder_id"

get_folder_id(document_type) ==
  IF document_type = "YunyuKyokasho" THEN "import_permit_folder_id"
  ELSE IF document_type = "Seikyusho" THEN "invoice_folder_id"
  ELSE "ValueError"

\* issue_date.strftime("%m"), dates being day indices into DateStrings.
MonthStrings == <<"10", "10">>

month_folder(parent_folder_id, issue_date) ==
  <<parent_folder_id, MonthStrings[issue_date]>>

\* _build_file_name: YYYYMMDD_<name>.
_build_file_name(file_path, issue_date) == <<DateStrings[issue_date], file_path>>

DriveFile(file_path, folder_id, issue_date) ==
  [parent |-> month_folder(folder_id, issue_date),
   name |-> _build_file_name(file_path, issue_date)]

\* _find_month_folder_id: is there a folder named after the month?
_find_month_folder_id(drv, parent_folder_id, issue_date) ==
  month_folder(parent_folder_id, issue_date) \in drv.folders

\* GoogleDriveUploadService.document_exists, when no request fails.
document_exists(drv, file_path, folder_id, issue_date) ==
  IF ~_find_month_folder_id(drv, folder_id, issue_date) THEN FALSE
  ELSE BagIn(DriveFile(file_path, folder_id, issue_date), drv.files)

\* _get_target_folder_id: the month folder is found or created.
_get_target_folder_id(drv, base_folder_id, issue_date) ==
  [drv EXCEPT !.folders = @ \cup {month_folder(base_folder_id, issue_date)}]

\* files().create with a media body: Drive makes a new file whatever files
\* of that name the folder holds, so the files of Drive are a bag.
files_create(drv, file) == [drv EXCEPT !.files = @ (+) SetToBag({file})]

\* Mutant of upload_document: the upload without the check for an existing file.
upload_documentUnchecked(drv, file_path, folder_id, issue_date) ==
  files_create(_get_target_folder_id(drv, folder_id, issue_date), DriveFile(file_path, folder_id, issue_date))

\* GoogleDriveUploadService.upload_document, when no request fails.
upload_document(drv, file_path, folder_id, issue_date) ==
  LET d1 == _get_target_folder_id(drv, folder_id, issue_date)
  IN  IF document_exists(d1, file_path, folder_id, issue_date) THEN d1
      ELSE files_create(d1, DriveFile(file_path, folder_id, issue_date))

EmptyDrive == [folders |-> {}, files |-> EmptyBag]

\* The arguments of a call of the upload service.
DriveNames == {DocNumbers[1], DocNumbers[2]}

UploadInputs == [file_path : DriveNames, folder_id : {"import_permit_folder_id", "invoice_folder_id"}, issue_date : 1..Len(DateStrings)]

NoUpload == [n |-> 0, op |-> "none", args |-> [file_path |-> "", folder_id |-> "", issue_date |-> 1], before |-> EmptyDrive, raised |-> FALSE, result |-> FALSE]

Called(op, args, raised, result) == [n |-> upload.n + 1, op |-> op, args |-> args, before |-> drive, raised |-> raised, result |-> result]

\* A call of upload_document that returns.
UploadDocumentReturns(maxCalls) ==
  /\ upload.n < maxCalls
  /\ \E a \in UploadInputs :
       /\ drive' = upload_document(drive, a.file_path, a.folder_id, a.issue_date)
       /\ upload' = Called("upload_document", a, FALSE, FALSE)
  /\ UNCHANGED <<documents, spreadsheet_repository, step, doc_index, skip_file_paths, import_permit_dict, invoice_dict, import_permit_count, invoice_count, uploaded_count, local_files, events, returned, reported>>
  /\ UNCHANGED <<download, accounting, run, ledgerVars, parserVars>>

\* A call of upload_document in which a request fails with HttpError: the
\* folder request of _get_or_create_folder, or files().create after it.
UploadDocumentRaises(maxCalls) ==
  /\ upload.n < maxCalls
  /\ \E a \in UploadInputs :
       /\ \/ drive' = drive
          \/ /\ ~document_exists(_get_target_folder_id(drive, a.folder_id, a.issue_date), a.file_path, a.folder_id, a.issue_date)
             /\ drive' = _get_target_folder_id(drive, a.folder_id, a.issue_date)
       /\ upload' = Called("upload_document", a, TRUE, FALSE)
  /\ UNCHANGED <<documents, spreadsheet_repository, step, doc_index, skip_file_paths, import_permit_dict, invoice_dict, import_permit_count, invoice_count, uploaded_count, local_files, events, returned, reported>>
  /\ UNCHANGED <<download, accounting, run, ledgerVars, parserVars>>

\* A call of document_exists: two list requests, nothing else.
DocumentExists(maxCalls) ==
  /\ upload.n < maxCalls
  /\ \E a \in UploadInputs :
       upload' = Called("document_exists", a, FALSE, document_exists(drive, a.file_path, a.folder_id, a.issue_date))
  /\ UNCHANGED <<download, accounting, run, ledgerVars, parserVars, useCaseVars>>

(***************************************************************************)
(* PDFDownloader: the file at file_path, and what the page answers.        *)
(***************************************************************************)
max_retries == 2

\* len(pdf_data) > 100, and st_size < 1000.
MIN_DATA_SIZE == 100

SMALL_FILE_SIZE == 1000

EmptyData == [head |-> "", len |-> 0]

\* What a response, a download or page.pdf() delivers: its first bytes and
\* its length.
Heads == {"%PDF", "<!doctype", "<html", "<HTML", "other"}

Bodies == [head : Heads, len : {50, 500, 5000}] \cup {EmptyData}

NoLocalFile == [exists |-> FALSE, head |-> "", len |-> 0]

\* file_path.write_bytes(data), download.save_as(file_path).
write_bytes(data) == [exists |-> TRUE, head |-> data.head, len |-> data.len]

\* file_path.unlink() after file_path.exists().
unlink(file) == NoLocalFile

IsHtml(head) == head \in {"<!doctype", "<html", "<HTML"}

_validate_pdf_file(file) ==
  IF ~file.exists THEN FALSE
  ELSE IF file.len < SMALL_FILE_SIZE
       THEN IF file.head = "%PDF" THEN TRUE ELSE IF IsHtml(file.head) THEN FALSE ELSE FALSE
       ELSE IF file.head = "%PDF" THEN TRUE ELSE IF IsHtml(file.head) THEN FALSE ELSE FALSE

Answer(success, file) == [success |-> success, raised |-> FALSE, file |-> file]

\* What the page does in one attempt: the path the attempt takes and the
\* data delivered on it.
\*   unlink_raises  removing the old file raises
\*   mkdir_raises   creating the parent directory raises
\*   status         the response is not 200
\*   response       the response is 200, with a body
\*   download       the request raises, the download event delivers a file
\*   print          request and download raise, page.pdf() returns data
\*   print_raises   request, download and page.pdf() raise
Paths == {"unlink_raises", "mkdir_raises", "status", "response", "download", "print", "print_raises"}

PageAnswers == [path : Paths, data : Bodies]

_download_via_print(io, file) ==
  LET f == write_bytes(io.data)
  IN  IF io.path = "download"
      THEN IF _validate_pdf_file(f) THEN Answer(TRUE, f) ELSE Answer(FALSE, unlink(f))
      ELSE IF io.path = "print" /\ io.data.len > MIN_DATA_SIZE
           THEN IF _validate_pdf_file(f) THEN Answer(TRUE, f) ELSE Answer(FALSE, f)
           ELSE Answer(FALSE, file)

_download_via_direct_response(io, file) ==
  IF io.path = "unlink_raises" /\ file.exists THEN [success |-> FALSE, raised |-> TRUE, file |-> file]
  ELSE IF io.path \in {"unlink_raises", "mkdir_raises"} THEN [success |-> FALSE, raised |-> TRUE, file |-> unlink(file)]
  ELSE IF io.path = "status" THEN Answer(FALSE, unlink(file))
  ELSE IF io.path = "response"
       THEN IF io.data.len > MIN_DATA_SIZE
            THEN LET f == write_bytes(io.data)
                 IN  IF _validate_pdf_file(f) THEN Answer(TRUE, f) ELSE Answer(FALSE, unlink(f))
            ELSE Answer(FALSE, unlink(file))
       ELSE _download_via_print(io, unlink(file))

\* PDFDownloader.download is not running.
NoDownload == [pc |-> "none", attempt |-> 0, calls |-> 0, file |-> NoLocalFile, result |-> FALSE, log |-> <<>>]

\* download has been called; file is what an earlier run left at file_path.
Downloading(file) == [NoDownload EXCEPT !.pc = "loop", !.file = file]

\* The end of an iteration of the loop of download: the next attempt, or the
\* end of the call when this was the last one.
Continue(d, endpc, message) ==
  IF d.attempt < max_retries
  THEN [d EXCEPT !.attempt = @ + 1, !.log = Append(@, message)]
  ELSE [d EXCEPT !.pc = endpc, !.result = FALSE, !.log = Append(@, message)]

\* One iteration of the loop of download.
DownloadAttempt(Answers) ==
  /\ download.pc = "loop"
  /\ \E io \in Answers :
       LET r == _download_via_direct_response(io, download.file)
           d == [download EXCEPT !.calls = @ + 1, !.file = r.file]
       IN  download' =
             IF r.raised THEN Continue(d, "raised", "error")
             ELSE IF r.success
                  THEN IF _validate_pdf_file(r.file)
                       THEN [d EXCEPT !.pc = "returned", !.result = TRUE]
                       ELSE Continue([d EXCEPT !.file = unlink(r.file)], "returned", "warning")
                  ELSE Continue(d, "returned", "debug")
  /\ UNCHANGED <<upload, accounting, run, ledgerVars, parserVars, useCaseVars>>

EmptyDict == [x \in {} |-> NoEntity]

DictPut(d, k, v) == [x \in DOMAIN d \cup {k} |-> IF x = k THEN v ELSE d[x]]

Log(i, evs) == [events EXCEPT ![i] = @ \o evs]

\* The rows write_import_permit / write_invoice append to ledger s.
WriteValues(e, s) ==
  LET no == NextTransactionNo(LastTransactionNo(ColumnA(s)))
  IN  IF e.type = "ImportPermit" THEN ImportPermitValues(e, no)
      ELSE InvoiceValues(e, no)

AbortAfterFailure(i) == i + MaxDocuments

\* "continue" in the except clause of either loop: on to the next document.
ContinueAfterFailure(i) == i + 1

WriteAlways(exists_on_drive) == TRUE

\* "if exists_on_drive: ... continue": the ledger write is reached only
\* when the existence check returned false.
ReachesWrite(exists_on_drive) == ~exists_on_drive

\* Step 1: download_documents, "if not documents: return []".
Download(Lists) ==
  /\ step = "init"
  /\ \E docs \in Lists :
       /\ documents' = docs
       /\ events' = [i \in 1..Len(docs) |-> <<>>]
       /\ local_files' = {docs[i].name : i \in 1..Len(docs)}
       /\ doc_index' = 1
       /\ IF Len(docs) = 0
            THEN step' = "returned" /\ returned' = <<>>
            ELSE /\ step' = IF spreadsheet_repository THEN "accounting" ELSE "upload"
                 /\ UNCHANGED returned
  /\ UNCHANGED <<reported, spreadsheet_repository, skip_file_paths, import_permit_dict, invoice_dict, import_permit_count, invoice_count, uploaded_count, drive>>
  /\ UNCHANGED <<ledgerVars, parserVars, serviceVars>>

\* download_documents raises: execute logs and re-raises.
DownloadError ==
  /\ step = "init"
  /\ step' = "raised"
  /\ UNCHANGED <<documents, spreadsheet_repository, doc_index, skip_file_paths, import_permit_dict, invoice_dict, import_permit_count, invoice_count, uploaded_count, drive, local_files, events, returned, reported>>
  /\ UNCHANGED <<ledgerVars, parserVars, serviceVars>>

InAccounting == step = "accounting" /\ doc_index <= Len(documents)

\* What one iteration of the accounting loop leaves behind.
AccountingIteration(next, evs, dictPut, skip, rows, counted) ==
  LET d == documents[doc_index]
      isPermit == d.document_type = "YunyuKyokasho"
  IN  /\ doc_index' = next
      /\ events' = Log(doc_index, <<"accounting">> \o evs)
      /\ import_permit_dict' = IF dictPut /\ isPermit THEN DictPut(import_permit_dict, d.name, parse(d)) ELSE import_permit_dict
      /\ invoice_dict' = IF dictPut /\ ~isPermit THEN DictPut(invoice_dict, d.name, parse(d)) ELSE invoice_dict
      /\ skip_file_paths' = IF skip THEN skip_file_paths \cup {d.name} ELSE skip_file_paths
      /\ sheet' = AppendRows(sheet, rows)
      /\ import_permit_count' = IF counted /\ isPermit THEN import_permit_count + 1 ELSE import_permit_count
      /\ invoice_count' = IF counted /\ ~isPermit THEN invoice_count + 1 ELSE invoice_count
      /\ UNCHANGED <<documents, spreadsheet_repository, step, uploaded_count, drive, local_files, returned, reported>>
      /\ UNCHANGED <<pc, entity, values_in_sheet, transaction_no, values, outcome, nDocs, readAt>>
      /\ UNCHANGED <<parserVars, serviceVars>>

\* get_folder_id raises for a type that has no folder.
AccountingFolderError ==
  /\ InAccounting
  /\ get_folder_id(documents[doc_index].document_type) = "ValueError"
  /\ AccountingIteration(ContinueAfterFailure(doc_index), <<"failed: folder">>, FALSE, FALSE, <<>>, FALSE)

\* parse raises (extraction or entity validation).
AccountingParseError ==
  /\ InAccounting
  /\ get_folder_id(documents[doc_index].document_type) # "ValueError"
  /\ parse(documents[doc_index]) = NoEntity
  /\ AccountingIteration(ContinueAfterFailure(doc_index), <<"failed: parse">>, FALSE, FALSE, <<>>, FALSE)

Parsed == 
  /\ InAccounting
  /\ get_folder_id(documents[doc_index].document_type) # "ValueError"
  /\ parse(documents[doc_index]) # NoEntity

ExistsOnDrive(d, issue_date) ==
  document_exists(drive, d.name, get_folder_id(d.document_type), issue_date)

\* document_exists raises (a Drive request failed).
AccountingExistsError ==
  /\ Parsed
  /\ AccountingIteration(ContinueAfterFailure(doc_index), <<"parsed", "failed: exists">>, TRUE, FALSE, <<>>, FALSE)

\* The document is on Drive already: no ledger write, no upload later.
AccountingSkip ==
  /\ Parsed
  /\ ExistsOnDrive(documents[doc_index], parse(documents[doc_index]).issue_date)
  /\ ~ReachesWrite(TRUE)
  /\ AccountingIteration(doc_index + 1, <<"parsed", "exists: true", "skipped">>, TRUE, TRUE, <<>>, FALSE)

\* write_import_permit / write_invoice returns: the block is in the ledger
\* (or nothing is, when no row was built), and the document is counted.
AccountingWrite ==
  /\ Parsed
  /\ LET d == documents[doc_index]
         exists_on_drive == ExistsOnDrive(d, parse(d).issue_date)
     IN  /\ ReachesWrite(exists_on_drive)
         /\ AccountingIteration(doc_index + 1, <<"parsed", IF exists_on_drive THEN "exists: true" ELSE "exists: false", "written">>, TRUE, FALSE, WriteValues(parse(d), sheet), TRUE)

\* write_import_permit / write_invoice raises HttpError: nothing appended.
AccountingWriteError ==
  /\ Parsed
  /\ LET d == documents[doc_index]
         exists_on_drive == ExistsOnDrive(d, parse(d).issue_date)
     IN  /\ ReachesWrite(exists_on_drive)
         /\ AccountingIteration(ContinueAfterFailure(doc_index), <<"parsed", IF exists_on_drive THEN "exists: true" ELSE "exists: false", "failed: write">>, TRUE, FALSE, <<>>, FALSE)

\* The accounting loop is over; step 3 starts.
AccountingDone ==
  /\ step = "accounting"
  /\ doc_index > Len(documents)
  /\ step' = "upload"
  /\ doc_index' = 1
  /\ UNCHANGED <<documents, spreadsheet_repository, skip_file_paths, import_permit_dict, invoice_dict, import_permit_count, invoice_count, uploaded_count, drive, local_files, events, returned, reported>>
  /\ UNCHANGED <<ledgerVars, parserVars, serviceVars>>

InUpload == step = "upload" /\ doc_index <= Len(documents)

\* Step 3, "発行日を取得": does the loop parse the file (again)?
UploadParses(d) ==
  /\ d.document_type \in {"YunyuKyokasho", "Seikyusho"}
  /\ d.name \notin DOMAIN (IF d.document_type = "YunyuKyokasho" THEN import_permit_dict ELSE invoice_dict)
  /\ spreadsheet_repository

\* Step 3: the issue date used for the Drive folder and the file name.
UploadIssueDate(d) ==
  IF d.document_type = "YunyuKyokasho" /\ d.name \in DOMAIN import_permit_dict
    THEN import_permit_dict[d.name].issue_date
  ELSE IF d.document_type = "Seikyusho" /\ d.name \in DOMAIN invoice_dict
    THEN invoice_dict[d.name].issue_date
  ELSE IF UploadParses(d) /\ parse(d) # NoEntity THEN parse(d).issue_date
  ELSE d.download_date

\* Mutant of RemovedInFinally: the file is removed after an upload only.
RemovedAfterUploadOnly(evs) == IF Len(evs) > 0 /\ evs[Len(evs)] = "uploaded" THEN <<"removed">> ELSE <<>>

\* "finally: self._remove_local_file(document.file_path)": whatever the
\* iteration did, it ends with one call of _remove_local_file.
RemovedInFinally(evs) == <<"removed">>

\* What one iteration of the upload loop leaves behind; the finally clause
\* removes the local file.
UploadIteration(next, evs, skip, drv, counted) ==
  LET d == documents[doc_index]
      put == UploadParses(d) /\ parse(d) # NoEntity
  IN  /\ doc_index' = next
      /\ events' = Log(doc_index, <<"upload">> \o evs \o RemovedInFinally(evs))
      /\ import_permit_dict' = IF put /\ d.document_type = "YunyuKyokasho" THEN DictPut(import_permit_dict, d.name, parse(d)) ELSE import_permit_dict
      /\ invoice_dict' = IF put /\ d.document_type = "Seikyusho" THEN DictPut(invoice_dict, d.name, parse(d)) ELSE invoice_dict
      /\ skip_file_paths' = IF skip THEN skip_file_paths \cup {d.name} ELSE skip_file_paths
      /\ drive' = drv
      /\ uploaded_count' = IF counted THEN uploaded_count + 1 ELSE uploaded_count
      /\ local_files' = IF RemovedInFinally(evs) = <<>> THEN local_files ELSE local_files \ {d.name}
      /\ UNCHANGED <<documents, spreadsheet_repository, step, import_permit_count, invoice_count, returned, reported>>
      /\ UNCHANGED <<ledgerVars, parserVars, serviceVars>>

\* get_folder_id raises for a type that has no folder.
UploadFolderError ==
  /\ InUpload
  /\ get_folder_id(documents[doc_index].document_type) = "ValueError"
  /\ UploadIteration(ContinueAfterFailure(doc_index), <<"failed: folder">>, FALSE, drive, FALSE)

HasFolder ==
  /\ InUpload
  /\ get_folder_id(documents[doc_index].document_type) # "ValueError"

\* "if document.file_path in skip_file_paths: continue".
UploadSkipListed ==
  /\ HasFolder
  /\ documents[doc_index].name \in skip_file_paths
  /\ UploadIteration(doc_index + 1, <<"skipped">>, FALSE, drive, FALSE)

NotListed == HasFolder /\ documents[doc_index].name \notin skip_file_paths

\* document_exists raises (a Drive request failed).
UploadExistsError ==
  /\ NotListed
  /\ UploadIteration(ContinueAfterFailure(doc_index), <<"failed: exists">>, FALSE, drive, FALSE)

\* The document is on Drive already.
UploadSkipExists ==
  /\ NotListed
  /\ ExistsOnDrive(documents[doc_index], UploadIssueDate(documents[doc_index]))
  /\ UploadIteration(doc_index + 1, <<"exists: true", "skipped">>, TRUE, drive, FALSE)

\* upload_document returns.
Upload ==
  /\ NotListed
  /\ LET d == documents[doc_index]
         issue_date == UploadIssueDate(d)
     IN  /\ ~ExistsOnDrive(d, issue_date)
         /\ UploadIteration(doc_index + 1, <<"exists: false", "uploaded">>, FALSE, upload_document(drive, d.name, get_folder_id(d.document_type), issue_date), TRUE)

\* upload_document raises: before anything was created, or after the month
\* folder was.
UploadError ==
  /\ NotListed
  /\ LET d == documents[doc_index]
         issue_date == UploadIssueDate(d)
     IN  /\ ~ExistsOnDrive(d, issue_date)
         /\ \E drv \in {drive, _get_target_folder_id(drive, get_folder_id(d.document_type), issue_date)} :
              UploadIteration(ContinueAfterFailure(doc_index), <<"exists: false", "failed: upload">>, FALSE, drv, FALSE)

\* "return documents": execute returns every downloaded document.
Return ==
  /\ step = "upload"
  /\ doc_index > Len(documents)
  /\ step' = "returned"
  /\ returned' = documents
  /\ UNCHANGED <<documents, spreadsheet_repository, doc_index, skip_file_paths, import_permit_dict, invoice_dict, import_permit_count, invoice_count, uploaded_count, drive, local_files, events, reported>>
  /\ UNCHANGED <<ledgerVars, parserVars, serviceVars>>

\* main(): "成功: {len(documents)} 件のドキュメントを処理しました" (success: N
\* documents processed), or the warning that nothing was found.
MainReport ==
  /\ step = "returned"
  /\ step' = "reported"
  /\ reported' = Len(returned)
  /\ UNCHANGED <<documents, spreadsheet_repository, doc_index, skip_file_paths, import_permit_dict, invoice_dict, import_permit_count, invoice_count, uploaded_count, drive, local_files, events, returned>>
  /\ UNCHANGED <<ledgerVars, parserVars, serviceVars>>

\* The site offers the documents of run.source: download_documents returns
\* them in every run.
DownloadSource == Download({run.source})

\* The program is started again after main() has ended: execute begins with
\* fresh locals; the ledger and Google Drive are as the earlier run left them.
RunAgain(maxRuns) ==
  /\ step = "reported"
  /\ run.n < maxRuns
  /\ run' = [run EXCEPT !.n = @ + 1]
  /\ documents' = <<>>
  /\ step' = "init"
  /\ doc_index' = 1
  /\ skip_file_paths' = {}
  /\ import_permit_dict' = EmptyDict
  /\ invoice_dict' = EmptyDict
  /\ import_permit_count' = 0
  /\ invoice_count' = 0
  /\ uploaded_count' = 0
  /\ local_files' = {}
  /\ events' = <<>>
  /\ returned' = <<>>
  /\ reported' = 0
  /\ UNCHANGED <<spreadsheet_repository, drive, accounting, callVars, ledgerVars, parserVars>>

(***************************************************************************)
(* Inputs.                                                                 *)
(***************************************************************************)
\* What column A of a row found in the ledger may hold.
LedgerCells ==
  {PyInt(3), PyStr(<<"7">>), PyStr(<<"abc">>), E, PyInt(-5), PyFrac(9)}

LedgerRows == {<<>>} \cup {<<c>> : c \in LedgerCells}

\* Column A = ["3", "7", "abc", "", "2"].
ExampleSheet ==
  << <<PyStr(<<"3">>)>>, <<PyStr(<<"7">>)>>, <<PyStr(<<"abc">>)>>, <<E>>,
     <<PyStr(<<"2">>)>> >>

AllSheets ==
  UNION {[1..n -> LedgerRows] : n \in 0..MaxRows} \cup {ExampleSheet}

\* Column A = ["7", "abc"]: rows that no document of the behaviour wrote.
ConcurrentSheet == << <<PyStr(<<"7">>)>>, <<PyStr(<<"abc">>)>> >>

BuildDuty == {0, 150, 1500, 5000}
BuildTotals == {0, 3000}
EntityAmounts == {-1, 0, 1, 2}
EntityDates == {1, 2}

InitWriters ==
  /\ pc = [w \in Writers |-> "idle"]
  /\ entity = [w \in Writers |-> NoEntity]
  /\ values_in_sheet = [w \in Writers |-> <<>>]
  /\ transaction_no = [w \in Writers |-> 0]
  /\ values = [w \in Writers |-> <<>>]
  /\ outcome = [w \in Writers |-> "none"]
  /\ nDocs = 0
  /\ readAt = [i \in {DocNumbers[j] : j \in 1..Len(DocNumbers)} |-> -1]

(***************************************************************************)
(* SpecUseCase: one run of DownloadAndUploadUseCase.execute from main(),   *)
(* against a Drive on which an earlier run may have left documents.        *)
(***************************************************************************)
\* The documents a download may return for file name `name`.
DocumentKinds(name) ==
  { Document("YunyuKyokasho", name, ImportPermit(name, 1, 0, 5000, 1500, 0, 0, TRUE), 2),
    Document("YunyuKyokasho", name, NoEntity, 2),
    Document("Seikyusho", name, Invoice(name, 1, 3000, 0, 0, 1, TRUE), 2),
    Document("Seikyusho", name, NoEntity, 2),
    Document("Daunrodo", name, NoEntity, 2) }

DocumentLists ==
  UNION {{docs \in [1..n -> UNION {DocumentKinds(DocNumbers[i]) : i \in 1..n}] : \A i \in 1..n : docs[i].name = DocNumbers[i]} : n \in 0..MaxDocuments}

BaseFolders == {"import_permit_folder_id", "invoice_folder_id"}

\* Drive after earlier runs uploaded the files named in P under date 1.
DriveWith(P) ==
  [folders |-> {month_folder(f, 1) : f \in BaseFolders},
   files |-> SetToBag({DriveFile(n, f, 1) : n \in P, f \in BaseFolders})]

InitUseCaseLocals ==
  /\ documents = <<>>
  /\ step = "init"
  /\ doc_index = 1
  /\ skip_file_paths = {}
  /\ import_permit_dict = EmptyDict
  /\ invoice_dict = EmptyDict
  /\ import_permit_count = 0
  /\ invoice_count = 0
  /\ uploaded_count = 0
  /\ local_files = {}
  /\ events = <<>>
  /\ returned = <<>>
  /\ reported = 0

\* The use case is not running.
NoUseCase ==
  /\ InitUseCaseLocals
  /\ spreadsheet_repository = FALSE
  /\ drive = EmptyDrive

NoFile == [kind |-> "none"]

NotParsed == [status |-> "none"]

\* No parser is running.
\* No other service is running.
FirstRun == [n |-> 1, source |-> <<>>]

NoCalls == upload = NoUpload /\ download = NoDownload

NoService == accounting = NoAccounting /\ run = FirstRun /\ NoCalls

NoParsing == pdf = NoFile /\ parsed = NotParsed

NoParser == NoParsing /\ NoService

InitUseCase ==
  /\ sheet = ConcurrentSheet
  /\ InitWriters
  /\ InitUseCaseLocals
  /\ spreadsheet_repository \in BOOLEAN
  /\ drive \in {EmptyDrive} \cup {DriveWith(P) : P \in SUBSET {DocNumbers[i] : i \in 1..MaxDocuments}}
  /\ NoParser

NextUseCase ==
  \/ Download(DocumentLists)
  \/ DownloadError
  \/ AccountingFolderError
  \/ AccountingParseError
  \/ AccountingExistsError
  \/ AccountingSkip
  \/ AccountingWrite
  \/ AccountingWriteError
  \/ AccountingDone
  \/ UploadFolderError
  \/ UploadSkipListed
  \/ UploadExistsError
  \/ UploadSkipExists
  \/ Upload
  \/ UploadError
  \/ Return
  \/ MainReport

SpecUseCase == InitUseCase /\ [][NextUseCase]_vars

\* execute is sequential code: each of its steps that can be taken is taken.
SpecUseCaseFair == SpecUseCase /\ WF_vars(NextUseCase)


(***************************************************************************)
(* SpecInvoiceText: InvoiceParser.parse on pages that carry any subset of  *)
(* the labelled pieces of an invoice.                                      *)
(***************************************************************************)
MaxItemRows == 2   \* rows below the header of the first table
MaxTables == 2     \* tables on the page

InvoiceFile(exists, pages, text, tables) ==
  [kind |-> "invoice", exists |-> exists, pages |-> pages, text |-> text, tables |-> tables]

Yen3000 == <<"JPY", "3", ",", "0", "0", "0">>

\* The text of test_parse_extracts_amounts, with the two dates chosen.
FullText(issue_date, payment_due_date) ==
  << Piece("Seikyusho[", "code", <<"YP1">>, 0),
     Piece("", "date", <<>>, issue_date),
     Piece("OkyakusamaMei:", "name", <<"Customer">>, 0),
     Piece("TsuisekiBango:", "code", <<"TRK">>, 0),
     Piece("Shokei:", "amount", Yen3000, 0),
     Piece("Shohizeigaku10%:", "amount", <<"JPY", "0">>, 0),
     Piece("GokeiKingaku:", "amount", Yen3000, 0),
     Piece("OshiharaiKigen:", "date", <<>>, payment_due_date) >>

\* The pieces of text whose positions are in K, in their order.
RECURSIVE Keep(_, _, _)
Keep(text, K, i) ==
  IF i > Len(text) THEN <<>>
  ELSE (IF i \in K THEN <<text[i]>> ELSE <<>>) \o Keep(text, K, i + 1)

Texts ==
  {Keep(FullText(d1, d2), K, 1) : d1 \in EntityDates, d2 \in EntityDates, K \in SUBSET (1..8)}

HeaderRow == <<PyStr(<<"SeikyuKomoku">>), PyStr(<<"SeikyuKingaku">>), PyStr(<<"Suryo">>), PyStr(<<"Tani">>)>>

\* ["通関申告料", "¥3,000", "1", "件"]
RowOk == <<PyStr(<<"Tsukan">>), PyStr(Yen3000), PyStr(<<"1">>), PyStr(<<"Ken">>)>>

\* The table of the tests: the header and one valid row.
TestTables == << <<HeaderRow, RowOk>> >>

InitInvoiceText ==
  /\ sheet = <<>> /\ InitWriters /\ NoUseCase /\ NoService
  /\ parsed = NotParsed
  /\ pdf \in {InvoiceFile(TRUE, 1, t, tb) : t \in Texts, tb \in {TestTables, <<>>, << <<HeaderRow>> >>}}
           \cup {InvoiceFile(FALSE, 1, FullText(1, 2), TestTables), InvoiceFile(TRUE, 0, <<>>, <<>>)}

NextInvoiceText == InvoiceParse

SpecInvoiceText == InitInvoiceText /\ [][NextInvoiceText]_vars

(***************************************************************************)
(* SpecInvoiceItems: InvoiceParser.parse on a full text and every list of  *)
(* tables built from the rows below.                                       *)
(***************************************************************************)
\* Rows that may stand below the header of the first table.
ItemRowInputs ==
  { RowOk,
    \* ["送料：", "500", "1"]
    <<PyStr(<<" ", "Soryo", ":">>), PyStr(<<"5", "0", "0">>), PyStr(<<"1">>)>>,
    \* an empty amount cell (None) and an empty quantity cell ("")
    <<PyStr(<<"Tsukan">>), None, PyStr(<<"1">>)>>,
    <<PyStr(<<"Tsukan">>), PyStr(Yen3000), E>>,
    \* amounts Decimal rejects: "x", "500円"
    <<PyStr(<<"Tsukan">>), PyStr(<<"x">>), PyStr(<<"1">>)>>,
    <<PyStr(<<"Tsukan">>), PyStr(<<"5", "0", "0", "EN">>), PyStr(<<"1">>)>>,
    \* a negative amount, a quantity Decimal rejects
    <<PyStr(<<"Tsukan">>), PyStr(<<"-", "5">>), PyStr(<<"1">>)>>,
    <<PyStr(<<"Tsukan">>), PyStr(Yen3000), PyStr(<<"x">>)>>,
    \* no name: None, "：" alone, and a blank
    <<None, PyStr(Yen3000), PyStr(<<"1">>)>>,
    <<PyStr(<<":">>), PyStr(Yen3000), PyStr(<<"1">>)>>,
    <<PyStr(<<" ">>), PyStr(Yen3000), PyStr(<<"1">>)>>,
    \* two cells only
    <<PyStr(<<"Tsukan">>), PyStr(Yen3000)>> }

\* ["保管料", "¥3,000", "1", "件"]
RowLater == <<PyStr(<<"Hokan">>), PyStr(Yen3000), PyStr(<<"1">>), PyStr(<<"Ken">>)>>

\* Tables that may follow the first one on the page.
LaterTables == { <<HeaderRow, RowLater>>, <<RowLater>>, <<HeaderRow>> }

SeqsUpTo(S, n) == UNION {[1..k -> S] : k \in 0..n}

FirstTables ==
  {h \o rows : h \in {<<>>, <<HeaderRow>>}, rows \in SeqsUpTo(ItemRowInputs, MaxItemRows)}

TableLists ==
  {<<>>} \cup {<<t>> \o later : t \in FirstTables, later \in SeqsUpTo(LaterTables, MaxTables - 1)}

InitInvoiceItems ==
  /\ sheet = <<>> /\ InitWriters /\ NoUseCase /\ NoService
  /\ parsed = NotParsed
  /\ pdf \in {InvoiceFile(TRUE, 1, FullText(1, 2), tb) : tb \in TableLists}

NextInvoiceItems == InvoiceParse

SpecInvoiceItems == InitInvoiceItems /\ [][NextInvoiceItems]_vars

(***************************************************************************)
(* SpecGemini: the post-processing on JSON objects whose fields are        *)
(* present, absent, null or malformed.                                     *)
(***************************************************************************)
MaxPermitItems == 1   \* entries of data["items"]

PermitFile(exists, response) == [kind |-> "permit", exists |-> exists, response |-> response]

\* The text of a JSON object with the pairs of data.
Bare(data) == <<Tok("{"), Obj(data), Tok("}")>>

\* The same object with one more pair ahead, whose string value is a fence.
BareWithFenceInString(data) == <<Tok("{"), Tok("q"), Tok("FENCE"), Tok("q"), Obj(data), Tok("}")>>

\* Values of a numeric field: absent, null, 1500, "¥3,000", "x", "-", "-5".
NumberInputs ==
  {Absent, None, PyInt(1500), PyStr(Yen3000), PyStr(<<"x">>), PyStr(<<"-">>), PyStr(<<"-", "5">>)}

\* Values of issue_date: absent, null, "", "2025-10-23", "2025/10/23".
IssueDateInputs ==
  {Absent, None, PyStr(<<>>), PyStr(<<"2025-10-23">>), PyStr(<<"2025/10/23">>)}

ItemInputs ==
  {[item_name |-> n, amount |-> a, quantity |-> q[1], unit |-> q[2]] :
     n \in {Absent, PyStr(<<"Kanzei">>)},
     a \in {Absent, PyStr(<<"5", "0", "0">>), PyStr(<<"x">>)},
     q \in {<<Absent, Absent>>, <<PyStr(<<"3">>), PyStr(<<"Ko">>)>>}}

ItemsInputs ==
  {[present |-> FALSE, list |-> <<>>]} \cup {[present |-> TRUE, list |-> l] : l \in SeqsUpTo(ItemInputs, MaxPermitItems)}

DataInputs ==
  {[permit_number |-> pn, issue_date |-> d, importer_name |-> t, tracking_number |-> t,
    total_amount |-> total, customs_duty |-> customs, consumption_tax |-> r[1],
    local_consumption_tax |-> r[2], subtotal |-> r[3], items |-> items] :
     pn \in {Absent, PyStr(<<"YP1">>)}, t \in {Absent, PyStr(<<"Importer">>)},
     d \in IssueDateInputs, total \in {Absent, PyStr(Yen3000)}, customs \in NumberInputs,
     r \in {<<Absent, Absent, Absent>>, <<PyInt(1500), PyInt(0), PyStr(<<"3", "0", "0", "0", "EN">>)>>},
     items \in ItemsInputs}

\* The object of the prompt's example, and the same without issue_date.
ExampleData ==
  [permit_number |-> PyStr(<<"YP1">>), issue_date |-> PyStr(<<"2025-10-23">>),
   importer_name |-> PyStr(<<"Importer">>), tracking_number |-> PyStr(<<"Importer">>),
   total_amount |-> PyStr(Yen3000), customs_duty |-> PyInt(1500), consumption_tax |-> PyInt(1500),
   local_consumption_tax |-> PyInt(0), subtotal |-> PyStr(<<"3", "0", "0", "0", "EN">>),
   items |-> [present |-> FALSE, list |-> <<>>]]

JsonBodies ==
  {Bare(data) : data \in {ExampleData, [ExampleData EXCEPT !.issue_date = Absent]}}
  \cup {BareWithFenceInString(ExampleData), <<Tok("x")>>}

\* What may stand before and after the body in a response.
Before ==
  { <<>>, <<Tok("FENCE")>>, <<Tok("FENCE"), Tok("nl")>>, <<Tok("FENCE"), Tok("json")>>,
    <<Tok("FENCE"), Tok("json"), Tok("nl")>>, <<Tok("nl"), Tok("FENCE"), Tok("json"), Tok("nl")>>,
    <<Tok("x"), Tok("nl"), Tok("FENCE"), Tok("json"), Tok("nl")>> }

After == { <<>>, <<Tok("FENCE")>>, <<Tok("nl"), Tok("FENCE")>>, <<Tok("nl"), Tok("FENCE"), Tok("nl")>>, <<Tok("nl"), Tok("FENCE"), Tok("nl"), Tok("x")>> }

Responses == {before \o body \o after : before \in Before, body \in JsonBodies, after \in After}

InitGemini ==
  /\ sheet = <<>> /\ InitWriters /\ NoUseCase /\ NoService
  /\ parsed = NotParsed
  /\ pdf \in {PermitFile(TRUE, Bare(data)) : data \in DataInputs}
           \cup {PermitFile(TRUE, response) : response \in Responses}
           \cup {PermitFile(FALSE, Bare(ExampleData))}

NextGemini == GeminiParse

SpecGemini == InitGemini /\ [][NextGemini]_vars

(***************************************************************************)
(* SpecRepeat: the program is run again and again over the same source     *)
(* documents, against the ledger and the Drive the earlier runs left.      *)
(***************************************************************************)
MaxRuns == 2   \* runs of the program in one behaviour

\* What the site offers in every run: one document, or two.
RepeatSources ==
  {<<a>> : a \in DocumentKinds(DocNumbers[1])} \cup {<<a, b>> : a \in DocumentKinds(DocNumbers[1]), b \in DocumentKinds(DocNumbers[2])}

InitRepeat ==
  /\ sheet = ConcurrentSheet
  /\ InitWriters
  /\ InitUseCaseLocals
  /\ spreadsheet_repository = TRUE
  /\ drive = EmptyDrive
  /\ NoParsing
  /\ accounting = NoAccounting
  /\ NoCalls
  /\ run \in {[n |-> 1, source |-> docs] : docs \in RepeatSources}

NextRepeat ==
  \/ DownloadSource
  \/ AccountingFolderError
  \/ AccountingParseError
  \/ AccountingExistsError
  \/ AccountingSkip
  \/ AccountingWrite
  \/ AccountingWriteError
  \/ AccountingDone
  \/ UploadFolderError
  \/ UploadSkipListed
  \/ UploadExistsError
  \/ UploadSkipExists
  \/ Upload
  \/ UploadError
  \/ Return
  \/ MainReport
  \/ RunAgain(MaxRuns)

SpecRepeat == InitRepeat /\ [][NextRepeat]_vars

\* execute is sequential code, and the program is started again.
SpecRepeatFair == SpecRepeat /\ WF_vars(NextRepeat)

(***************************************************************************)
(* SpecAccounting: CreateAccountingFromInvoiceUseCase.execute on the pages *)
(* of SpecInvoiceText, with a repository that answers or raises.           *)
(***************************************************************************)
TransactionIds == {"transaction_123", "transaction_124"}

RepositoryErrors == {[status |-> "Exception", error |-> <<"API error">>], [status |-> "ValueError", error |-> <<"invalid invoice">>]}

InitAccounting ==
  /\ sheet = <<>> /\ InitWriters /\ NoUseCase
  /\ parsed = NotParsed
  /\ pdf \in {InvoiceFile(TRUE, 1, t, tb) : t \in Texts, tb \in {TestTables, <<>>}} \cup {InvoiceFile(FALSE, 1, FullText(1, 2), TestTables)}
  /\ accounting = [NoAccounting EXCEPT !.pc = "start"]
  /\ run = FirstRun
  /\ NoCalls

NextAccounting ==
  \/ ExecuteParse
  \/ CreateTransactionReturns(TransactionIds)
  \/ CreateTransactionRaises(RepositoryErrors)

SpecAccounting == InitAccounting /\ [][NextAccounting]_vars

(***************************************************************************)
(* SpecDrive: calls of the upload service one after the other, on a Drive  *)
(* that is empty or holds the uploads of an earlier run.                   *)
(***************************************************************************)
MaxCalls == 3

InitDrive ==
  /\ sheet = <<>> /\ InitWriters /\ InitUseCaseLocals /\ NoParsing
  /\ spreadsheet_repository = FALSE
  /\ drive \in {EmptyDrive, DriveWith({DocNumbers[1]})}
  /\ accounting = NoAccounting /\ run = FirstRun /\ NoCalls

NextDrive ==
  \/ UploadDocumentReturns(MaxCalls)
  \/ UploadDocumentRaises(MaxCalls)
  \/ DocumentExists(MaxCalls)

SpecDrive == InitDrive /\ [][NextDrive]_vars

(***************************************************************************)
(* SpecDownload: one call of PDFDownloader.download, on every answer of    *)
(* the page in every attempt.                                              *)
(***************************************************************************)
LeftFiles == {NoLocalFile, write_bytes([head |-> "<html", len |-> 500]), write_bytes([head |-> "%PDF", len |-> 5000])}

InitDownload ==
  /\ sheet = <<>> /\ InitWriters /\ NoUseCase /\ NoParsing
  /\ accounting = NoAccounting /\ run = FirstRun /\ upload = NoUpload
  /\ download \in {Downloading(f) : f \in LeftFiles}

NextDownload == DownloadAttempt(PageAnswers)

SpecDownload == InitDownload /\ [][NextDownload]_vars

SpecDownloadFair == SpecDownload /\ WF_vars(NextDownload)

(***************************************************************************)
(* Spec: writers working concurrently against one ledger.                  *)
(***************************************************************************)
Init == sheet = ConcurrentSheet /\ InitWriters /\ NoUseCase /\ NoParser

Next ==
  \E w \in Writers :
    \/ NewImportPermit(w, {0, 5000}, {1500}, {0, 150}, {0}, {TRUE}, MaxDocs)
    \/ NewInvoice(w, BuildTotals, {0}, {1}, {TRUE}, MaxDocs)
    \/ WriteImportPermitRead(w)
    \/ WriteInvoiceRead(w)
    \/ WriteImportPermitAppend(w)
    \/ WriteInvoiceAppend(w)
    \/ ReadHttpError(w)
    \/ AppendHttpError(w)

Spec == Init /\ [][Next]_vars

(***************************************************************************)
(* SpecBuild: one write_* call on every ledger content and every entity.   *)
(***************************************************************************)
InitBuild == sheet \in AllSheets /\ InitWriters /\ NoUseCase /\ NoParser

NextBuild ==
  \/ NewImportPermit(1, BuildDuty, BuildDuty, BuildDuty, {0}, {TRUE}, 1)
  \/ NewInvoice(1, BuildTotals, {0}, {1}, {TRUE}, 1)
  \/ WriteImportPermitRead(1)
  \/ WriteInvoiceRead(1)
  \/ WriteImportPermitAppend(1)
  \/ WriteInvoiceAppend(1)
  \/ ReadHttpError(1)
  \/ AppendHttpError(1)

SpecBuild == InitBuild /\ [][NextBuild]_vars

(***************************************************************************)
(* SpecEntity: the constructors on every combination of field values.      *)
(***************************************************************************)
InitEntity == sheet = <<>> /\ InitWriters /\ NoUseCase /\ NoParser

NextEntity ==
  \/ NewImportPermit(1, EntityAmounts, EntityAmounts, EntityAmounts,
                     EntityAmounts, BOOLEAN, 1)
  \/ NewInvoice(1, EntityAmounts, EntityAmounts, EntityDates, BOOLEAN, 1)

SpecEntity == InitEntity /\ [][NextEntity]_vars

(***************************************************************************)
(* Vocabulary of the properties.                                           *)
(***************************************************************************)
DEBIT_ACCOUNT == 3
DEBIT_TAX_CATEGORY == 7
DEBIT_AMOUNT == 9
CREDIT_ACCOUNT == 11
CREDIT_SUB_ACCOUNT == 12
CREDIT_AMOUNT == 17
SUMMARY == 19
RowWidth == 27

\* The document a ledger row belongs to ("-" for a row no document wrote):
\* its number is the second token of the summary.
DocOfRow(row) == IF Len(row) = RowWidth THEN row[SUMMARY].s[2] ELSE "-"

RowsOf(d) == {i \in 1..Len(sheet) : DocOfRow(sheet[i]) = d}

DocsInSheet == {DocOfRow(sheet[i]) : i \in 1..Len(sheet)} \ {"-"}

SetMax(S) == CHOOSE m \in S : \A x \in S : x <= m
SetMin(S) == CHOOSE m \in S : \A x \in S : m <= x

\* A cell as an amount: a non-numeric cell ("") counts for nothing.
AmountOf(c) == IF IsNumber(c) THEN c.n ELSE 0

RECURSIVE SumColumn(_, _, _)
SumColumn(rows, col, i) ==
  IF i > Len(rows) THEN 0
  ELSE AmountOf(rows[i][col]) + SumColumn(rows, col, i + 1)

IsOfDoc(d, row) == DocOfRow(row) = d
BlockOf(d) == SelectSeq(sheet, LAMBDA row : DocOfRow(row) = d)

IsDebitLeg(row) == row[DEBIT_ACCOUNT] # E /\ row[CREDIT_ACCOUNT] = E
IsCreditLeg(row) == row[CREDIT_ACCOUNT] # E /\ row[DEBIT_ACCOUNT] = E

\* The place of a leg in the builders' order.
LegRank(row) ==
  IF IsCreditLeg(row) THEN 4
  ELSE IF row[DEBIT_ACCOUNT] = PyStr(<<"SozeiKoka">>) THEN 1
  ELSE IF row[DEBIT_ACCOUNT] = PyStr(<<"ShiharaiTesuryo">>) THEN 1
  ELSE IF row[DEBIT_TAX_CATEGORY] = PyStr(<<"Kyo-Yushi-Shozei 7.8%">>) THEN 2
  ELSE IF row[DEBIT_TAX_CATEGORY] = PyStr(<<"Kyo-Yushi-Chizei 2.2%">>) THEN 3
  ELSE 0

InBuilderOrder(rows) ==
  /\ \A i \in 1..Len(rows) : LegRank(rows[i]) > 0
  /\ \A i \in 1..Len(rows) - 1 : LegRank(rows[i]) < LegRank(rows[i + 1])
  /\ Len(rows) > 0 => IsCreditLeg(rows[Len(rows)])

\* The writer's write_* call has read the ledger and built its rows.
HasBuilt(w) == pc[w] \in {"built", "returned"}

\* The values int() yields on the cells of column A it accepts.
ParsedCells(rows) ==
  {int_(rows[i][1]).v :
     i \in {j \in 1..Len(rows) : Len(rows[j]) > 0 /\ int_(rows[j][1]).ok}}

(***************************************************************************)
(* C1 (as stated): the transaction number a write_* call assigns is 1 +    *)
(* the maximum of the integer-parsable cells of column A, the maximum      *)
(* being 0 only when no cell is integer-parsable.                          *)
(***************************************************************************)
C1_OnePlusMaxOfParsable ==
  \A w \in Writers :
    HasBuilt(w) =>
      transaction_no[w] =
        1 + (IF ParsedCells(values_in_sheet[w]) = {} THEN 0
             ELSE SetMax(ParsedCells(values_in_sheet[w])))

(***************************************************************************)
(* C1 (amended): the transaction number a write_* call assigns is 1 + the  *)
(* maximum of 0 and the integer-parsable cells of column A: cells that     *)
(* int() rejects are ignored, and cells below 1 never lower the result     *)
(* under 1.                                                                *)
(***************************************************************************)
C1_OnePlusMaxAboveZero ==
  \A w \in Writers :
    HasBuilt(w) =>
      transaction_no[w] =
        1 + SetMax(ParsedCells(values_in_sheet[w]) \cup {0})

\* Column A = ["3", "7", "abc", "", "2"] was read and gave 8.
C1_ExampleGivesEight ==
  \E w \in Writers :
    /\ HasBuilt(w)
    /\ values_in_sheet[w] = ColumnA(ExampleSheet)
    /\ transaction_no[w] = 8

(***************************************************************************)
(* C2: in every ledger state, the debit amounts of the rows of one         *)
(* document sum to the same total as their credit amounts.                 *)
(***************************************************************************)
C2_BlocksBalanced ==
  \A d \in DocsInSheet :
    SumColumn(BlockOf(d), DEBIT_AMOUNT, 1) = SumColumn(BlockOf(d), CREDIT_AMOUNT, 1)

\* The ledger holds a block with three debit legs and a positive total.
C2_ThreeLegBlockInLedger ==
  \E d \in DocsInSheet :
    /\ Len(BlockOf(d)) = 4
    /\ SumColumn(BlockOf(d), DEBIT_AMOUNT, 1) = 6650
    /\ SumColumn(BlockOf(d), CREDIT_AMOUNT, 1) = 6650

(***************************************************************************)
(* C3: all rows one write_* call builds carry the transaction number the   *)
(* call computed after its read, and so do the rows of the document once   *)
(* they are in the ledger.                                                 *)
(***************************************************************************)
C3_OneNumberPerDocument ==
  /\ \A w \in Writers :
       HasBuilt(w) =>
         \A i \in 1..Len(values[w]) : values[w][i][1] = PyInt(transaction_no[w])
  /\ \A d \in DocsInSheet :
       \A i, j \in RowsOf(d) : sheet[i][1] = sheet[j][1]

\* A call has appended a block of at least three rows.
C3_MultiRowBlockWritten ==
  \E w \in Writers :
    /\ pc[w] = "returned"
    /\ outcome[w] = "written"
    /\ Len(values[w]) >= 3
    /\ Cardinality(RowsOf(DocNumberOf(entity[w]))) = Len(values[w])

(***************************************************************************)
(* C4: two documents written without mutual exclusion can end up with the  *)
(* same transaction number, and only so: whenever the blocks of two        *)
(* documents share a number, the call that appended second had read the    *)
(* ledger before the first block was in it.                                *)
(***************************************************************************)
SameNumber(d1, d2) ==
  sheet[SetMin(RowsOf(d1))][1] = sheet[SetMin(RowsOf(d2))][1]

C4_CollisionOnlyWhenOverlapping ==
  \A d1, d2 \in DocsInSheet :
    (d1 # d2 /\ SameNumber(d1, d2) /\ SetMin(RowsOf(d1)) < SetMin(RowsOf(d2)))
      => readAt[d2] < SetMax(RowsOf(d1))

\* Two different documents share one transaction number in the ledger.
C4_Collision ==
  \E d1, d2 \in DocsInSheet : d1 # d2 /\ SameNumber(d1, d2)

(***************************************************************************)
(* C5: in every ledger state the rows of one document are consecutive and  *)
(* in builder order (debit legs in their fixed order, the credit leg       *)
(* last), whatever the interleaving of the writers.                        *)
(***************************************************************************)
C5_BlocksContiguousInOrder ==
  \A d \in DocsInSheet :
    /\ RowsOf(d) = SetMin(RowsOf(d))..SetMax(RowsOf(d))
    /\ InBuilderOrder(BlockOf(d))

\* Two blocks are in the ledger, written by calls that overlapped, one of
\* them with three debit legs.
C5_TwoOverlappingBlocks ==
  \E d1, d2 \in DocsInSheet :
    /\ SetMax(RowsOf(d1)) < SetMin(RowsOf(d2))
    /\ readAt[d2] < SetMin(RowsOf(d1))
    /\ Cardinality(RowsOf(d1)) = 4

(***************************************************************************)
(* C6: write_import_permit builds a debit leg for a component exactly when *)
(* its amount is above zero, with the component's account, tax category    *)
(* and amount, the legs standing in the order customs duty, consumption    *)
(* tax, local consumption tax.                                             *)
(***************************************************************************)
DebitLegs(rows) == SelectSeq(rows, IsDebitLeg)

HasLeg(rows, account, tax_category, amount) ==
  \E i \in 1..Len(rows) :
    /\ rows[i][DEBIT_ACCOUNT] = PyStr(account)
    /\ rows[i][DEBIT_TAX_CATEGORY] = PyStr(tax_category)
    /\ rows[i][DEBIT_AMOUNT] = PyFloat(amount)

PositiveComponents(p) ==
  (IF p.customs_duty > 0 THEN 1 ELSE 0)
  + (IF p.consumption_tax > 0 THEN 1 ELSE 0)
  + (IF p.local_consumption_tax > 0 THEN 1 ELSE 0)

C6_DebitLegsOfPositiveComponents ==
  \A w \in Writers :
    (HasBuilt(w) /\ entity[w].type = "ImportPermit") =>
      LET p == entity[w]
          legs == DebitLegs(values[w])
      IN  /\ Len(legs) = PositiveComponents(p)
          /\ p.customs_duty > 0
               <=> HasLeg(legs, <<"SozeiKoka">>, <<>>, p.customs_duty)
          /\ p.consumption_tax > 0
               <=> HasLeg(legs, <<"KaribaraiShohizei">>,
                          <<"Kyo-Yushi-Shozei 7.8%">>, p.consumption_tax)
          /\ p.local_consumption_tax > 0
               <=> HasLeg(legs, <<"KaribaraiShohizei">>,
                          <<"Kyo-Yushi-Chizei 2.2%">>, p.local_consumption_tax)
          /\ \A i \in 1..Len(legs) - 1 : LegRank(legs[i]) < LegRank(legs[i + 1])
          /\ \A i \in 1..Len(legs) : values[w][i] = legs[i]

\* A permit with customs duty and local consumption tax, and no consumption
\* tax, got its two debit legs.
C6_TwoOfThreeLegs ==
  \E w \in Writers :
    /\ HasBuilt(w)
    /\ entity[w].type = "ImportPermit"
    /\ entity[w].customs_duty = 5000
    /\ entity[w].consumption_tax = 0
    /\ entity[w].local_consumption_tax = 150
    /\ Len(DebitLegs(values[w])) = 2

(***************************************************************************)
(* C7: for a permit with k >= 1 positive components write_import_permit    *)
(* builds k + 1 rows, the last one the only credit leg: account            *)
(* FutsuYokin, sub-account SaitamakenShinyoKinko, credit amount the sum of *)
(* the debit amounts.                                                      *)
(***************************************************************************)
C7_OneCreditLegForTheTotal ==
  \A w \in Writers :
    (HasBuilt(w) /\ entity[w].type = "ImportPermit"
       /\ PositiveComponents(entity[w]) >= 1) =>
      LET rows == values[w]
          last == rows[Len(rows)]
      IN  /\ Len(rows) = PositiveComponents(entity[w]) + 1
          /\ Len(SelectSeq(rows, IsCreditLeg)) = 1
          /\ IsCreditLeg(last)
          /\ last[CREDIT_ACCOUNT] = PyStr(<<"FutsuYokin">>)
          /\ last[CREDIT_SUB_ACCOUNT] = PyStr(<<"SaitamakenShinyoKinko">>)
          /\ IsNumber(last[CREDIT_AMOUNT])
          /\ last[CREDIT_AMOUNT].n = SumColumn(rows, DEBIT_AMOUNT, 1)

\* Customs 5000, consumption 1500, local 150: 4 rows, debits 6650, credit 6650.
C7_ExampleFourRows ==
  \E w \in Writers :
    /\ HasBuilt(w)
    /\ entity[w].type = "ImportPermit"
    /\ entity[w].customs_duty = 5000
    /\ entity[w].consumption_tax = 1500
    /\ entity[w].local_consumption_tax = 150
    /\ Len(values[w]) = 4
    /\ SumColumn(values[w], DEBIT_AMOUNT, 1) = 6650
    /\ values[w][4][CREDIT_AMOUNT] = PyFloat(6650)

(***************************************************************************)
(* C8: for a permit whose three components are zero, write_import_permit   *)
(* builds no row, never gets to the append request, leaves the ledger as   *)
(* it was, and (its read having succeeded) returns without raising.        *)
(***************************************************************************)
AllZero(e) ==
  /\ e.type = "ImportPermit"
  /\ e.customs_duty = 0
  /\ e.consumption_tax = 0
  /\ e.local_consumption_tax = 0

C8_NothingWrittenForZeroPermit ==
  \A w \in Writers :
    AllZero(entity[w]) =>
      /\ pc[w] # "built"
      /\ values[w] = <<>>
      /\ RowsOf(entity[w].permit_number) = {}
      /\ pc[w] \in {"returned", "raised"} =>
           \/ pc[w] = "returned" /\ outcome[w] = "nothing written"
           \/ pc[w] = "raised" /\ outcome[w] = "HttpError"
                /\ values_in_sheet[w] = <<>> /\ transaction_no[w] = 0

\* write_import_permit returned for an all-zero permit.
C8_ZeroPermitReturned ==
  \E w \in Writers :
    AllZero(entity[w]) /\ pc[w] = "returned" /\ outcome[w] = "nothing written"

(***************************************************************************)
(* C9: write_invoice appends exactly two rows when total_amount > 0, a     *)
(* debit leg (account ShiharaiTesuryo, debit amount total_amount) and then *)
(* a credit leg (account FutsuYokin, sub-account Kaigen, credit amount     *)
(* total_amount) with the same transaction number, and appends nothing     *)
(* when total_amount is 0.                                                 *)
(***************************************************************************)
C9_InvoiceTwoRowsOrNone ==
  \A w \in Writers :
    (entity[w].type = "Invoice" /\ HasBuilt(w)) =>
      LET inv == entity[w]
          block == BlockOf(inv.invoice_number)
      IN  /\ inv.total_amount = 0 =>
               values[w] = <<>> /\ pc[w] = "returned" /\ block = <<>>
          /\ inv.total_amount > 0 =>
               /\ Len(values[w]) = 2
               /\ values[w][1][DEBIT_ACCOUNT] = PyStr(<<"ShiharaiTesuryo">>)
               /\ values[w][1][DEBIT_AMOUNT] = PyFloat(inv.total_amount)
               /\ IsDebitLeg(values[w][1])
               /\ IsCreditLeg(values[w][2])
               /\ values[w][2][CREDIT_ACCOUNT] = PyStr(<<"FutsuYokin">>)
               /\ values[w][2][CREDIT_SUB_ACCOUNT] = PyStr(<<"Kaigen">>)
               /\ values[w][2][CREDIT_AMOUNT] = PyFloat(inv.total_amount)
               /\ values[w][1][1] = values[w][2][1]
               /\ block = (IF pc[w] = "returned" THEN values[w] ELSE <<>>)

\* An invoice of 3000 has been appended as the last two rows of the ledger.
C9_InvoiceWritten ==
  \E w \in Writers :
    /\ entity[w].type = "Invoice"
    /\ entity[w].total_amount = 3000
    /\ pc[w] = "returned"
    /\ Len(sheet) >= 2
    /\ SubSeq(sheet, Len(sheet) - 1, Len(sheet)) = values[w]
    /\ Len(values[w]) = 2

(***************************************************************************)
(* C10: no Invoice and no ImportPermit exists with a negative monetary     *)
(* field (total_amount, tax_amount, subtotal; total_amount, customs_duty,  *)
(* consumption_tax, local_consumption_tax, subtotal): the constructor      *)
(* raises for each of them.                                                *)
(***************************************************************************)
C10_NoEntityWithNegativeAmount ==
  \A w \in Writers :
    /\ entity[w].type = "Invoice" =>
         /\ entity[w].total_amount >= 0
         /\ entity[w].tax_amount >= 0
         /\ entity[w].subtotal >= 0
    /\ entity[w].type = "ImportPermit" =>
         /\ entity[w].total_amount >= 0
         /\ entity[w].customs_duty >= 0
         /\ entity[w].consumption_tax >= 0
         /\ entity[w].local_consumption_tax >= 0
         /\ entity[w].subtotal >= 0

(***************************************************************************)
(* C11: every Invoice that exists has issue_date <= payment_due_date: the  *)
(* constructor raises a ValueError when issue_date is strictly later than  *)
(* payment_due_date, and then no entity exists.                            *)
(***************************************************************************)
C11_IssueDateNotAfterDueDate ==
  \A w \in Writers :
    /\ entity[w].type = "Invoice" =>
         entity[w].issue_date <= entity[w].payment_due_date
    /\ outcome[w] = "ValueError: issue_date" =>
         pc[w] = "raised" /\ entity[w] = NoEntity

\* A constructor call was refused for its dates.
C11_DateOrderRefused ==
  \E w \in Writers :
    /\ pc[w] = "raised"
    /\ outcome[w] = "ValueError: issue_date"
    /\ entity[w] = NoEntity

(***************************************************************************)
(* The log of a run, per document.                                         *)
(***************************************************************************)
Did(i, ev) == \E k \in 1..Len(events[i]) : events[i][k] = ev

EventAt(i, ev) == CHOOSE k \in 1..Len(events[i]) : events[i][k] = ev

\* Documents whose extraction, validation or ledger write failed.
FailedDocuments ==
  {i \in 1..Len(documents) : Did(i, "failed: parse") \/ Did(i, "failed: write")}

WrittenDocuments == {i \in 1..Len(documents) : Did(i, "written")}

(***************************************************************************)
(* C12: a document whose extraction, validation or ledger write failed has *)
(* no row in the ledger, is not in the processed counts of the accounting  *)
(* step, and is not in the number of documents the run reports as          *)
(* processed successfully.                                                 *)
(***************************************************************************)
C12_FailedDocumentNotCounted ==
  /\ \A i \in FailedDocuments : RowsOf(documents[i].name) = {}
  /\ import_permit_count + invoice_count = Cardinality(WrittenDocuments)
  /\ step = "reported" =>
       reported <= Len(documents) - Cardinality(FailedDocuments)

AttemptedInBothSteps(i) ==
  /\ Did(i, "upload")
  /\ spreadsheet_repository => Did(i, "accounting")

OnPage ==
  /\ pdf.kind = "invoice" /\ pdf.exists /\ pdf.pages > 0
  /\ parsed.status # "none"

HasPiece(label, kind) ==
  \E i \in 1..Len(pdf.text) : pdf.text[i].label = label /\ pdf.text[i].kind = kind

HasAnyDate == \E i \in 1..Len(pdf.text) : pdf.text[i].kind = "date"

HasItems == ItemRows(pdf.tables) # <<>>

\* The mandatory elements other than the issue date and the total amount.
OthersPresent ==
  /\ HasPiece("Seikyusho[", "code")
  /\ HasPiece("OkyakusamaMei:", "name")
  /\ HasPiece("TsuisekiBango:", "code")
  /\ HasPiece("OshiharaiKigen:", "date")
  /\ HasItems

DatesOrdered ==
  _extract_issue_date(pdf.text).v <= _extract_payment_due_date(pdf.text).v

\* What parse does once the mandatory elements are there.
DefaultsAndTotal ==
  /\ (OthersPresent /\ HasPiece("", "date") /\ HasPiece("GokeiKingaku:", "amount") /\ DatesOrdered) =>
       /\ parsed.status = "ok"
       /\ ~HasPiece("Shokei:", "amount") => parsed.invoice.subtotal = 0
       /\ ~HasPiece("Shohizeigaku10%:", "amount") => parsed.invoice.tax_amount = 0
  /\ (OthersPresent /\ HasAnyDate /\ ~HasPiece("GokeiKingaku:", "amount")) =>
       parsed = Wrapped("GokeiKingaku")

(***************************************************************************)
(* C15: InvoiceParser.parse fails whenever the page lacks the document     *)
(* number, the issue date, the customer name, the tracking number, the     *)
(* payment due date, the total amount or a non-empty item list; it         *)
(* succeeds with subtotal = 0 and tax_amount = 0 when only those two       *)
(* labels are missing; a missing 合計金額 is reported as such.             *)
(***************************************************************************)
C15_FailsWhenMandatoryAbsent ==
  OnPage =>
    /\ ~(OthersPresent /\ HasPiece("", "date") /\ HasPiece("GokeiKingaku:", "amount")) =>
         parsed.status = "ValueError"
    /\ DefaultsAndTotal

(***************************************************************************)
(* C15 (amended): as above, except that the issue date is the first date   *)
(* anywhere in the text: parse fails for want of an issue date only when   *)
(* the text holds no date at all, and a page without an issue date but     *)
(* with a payment due date is parsed with the due date as its issue date.  *)
(***************************************************************************)
C15_FailsWhenNoDateAtAll ==
  OnPage =>
    /\ ~(OthersPresent /\ HasAnyDate /\ HasPiece("GokeiKingaku:", "amount")) =>
         parsed.status = "ValueError"
    /\ DefaultsAndTotal
    /\ (OthersPresent /\ ~HasPiece("", "date") /\ HasPiece("GokeiKingaku:", "amount")) =>
         /\ parsed.status = "ok"
         /\ parsed.invoice.issue_date = parsed.invoice.payment_due_date

\* A page lacking only the 合計金額 label was refused for it.
C15_TotalMissingReported ==
  /\ OnPage
  /\ Len(pdf.text) = 7
  /\ ~HasPiece("GokeiKingaku:", "amount")
  /\ parsed = Wrapped("GokeiKingaku")

(***************************************************************************)
(* C16: for the page of test_parse_extracts_invoice_number, whose text     *)
(* holds only 請求書[code] and a date and whose table is the header and    *)
(* one valid row, parse returns an Invoice with invoice_number = code.     *)
(***************************************************************************)
C16_LabelAndDateGiveInvoiceNumber ==
  (OnPage /\ pdf.text = Keep(FullText(1, 2), {1, 2}, 1) /\ pdf.tables = TestTables) =>
    /\ parsed.status = "ok"
    /\ parsed.invoice.invoice_number = <<"YP1">>


(***************************************************************************)
(* Vocabulary for the post-processing of the oracle's JSON.                *)
(***************************************************************************)
PermitRead == pdf.kind = "permit" /\ pdf.exists /\ parsed.status # "none"

\* The response is a bare JSON object.
BareObjectRead == PermitRead /\ \E data \in DataInputs : pdf.response = Bare(data)

OracleData == pdf.response[2].data

IssueDateUsable(data) ==
  Truthy(Get(data.issue_date, PyStr(<<>>))) /\ strptime(data.issue_date) # 0

\* A numeric field that is absent, or present with a non-negative number.
AbsentOrNumber(cell) ==
  cell = Absent \/ cell \in {PyInt(1500), PyInt(0), PyStr(Yen3000), PyStr(<<"3", "0", "0", "0", "EN">>), PyStr(<<"5", "0", "0">>), PyStr(<<"3">>)}

\* Every field of the object that is present is well formed.
PresentFieldsValid(data) ==
  /\ \A cell \in {data.total_amount, data.customs_duty, data.consumption_tax, data.local_consumption_tax, data.subtotal} : AbsentOrNumber(cell)
  /\ \A i \in 1..Len(data.items.list) : AbsentOrNumber(data.items.list[i].amount) /\ AbsentOrNumber(data.items.list[i].quantity)

ItemDefaults(item_data, item) ==
  /\ item_data.item_name = Absent => item.item_name = <<>>
  /\ item_data.unit = Absent => item.unit = <<>>
  /\ item_data.amount = Absent => item.amount = 0
  /\ item_data.quantity = Absent => item.quantity = 1

\* C17: post-processing the oracle's JSON, an absent field other than
\* issue_date never makes parsing fail (text fields become the empty string,
\* numeric fields 0, item quantity 1), and a missing or malformed issue_date
\* always makes it fail.
C17_AbsentFieldsNeverFail ==
  BareObjectRead =>
    /\ ~IssueDateUsable(OracleData) => parsed.status = "ValueError"
    /\ (IssueDateUsable(OracleData) /\ PresentFieldsValid(OracleData)) =>
         /\ parsed.status = "ok"
         /\ OracleData.permit_number = Absent => parsed.import_permit.permit_number = <<>>
         /\ OracleData.importer_name = Absent => parsed.import_permit.importer_name = <<>>
         /\ OracleData.total_amount = Absent => parsed.import_permit.total_amount = 0
         /\ OracleData.customs_duty = Absent => parsed.import_permit.customs_duty = 0
         /\ OracleData.subtotal = Absent => parsed.import_permit.subtotal = 0
         /\ Len(parsed.import_permit.items) = Len(OracleData.items.list)
         /\ \A i \in 1..Len(OracleData.items.list) : ItemDefaults(OracleData.items.list[i], parsed.import_permit.items[i])


(***************************************************************************)
(* Vocabulary for the item rows of an invoice.                             *)
(***************************************************************************)
InvoiceRead == pdf.kind = "invoice" /\ pdf.exists /\ parsed.status # "none"

\* Trimmed and stripped of ",", the yen sign and the yen character.
Cleaned(s) == Replace(Replace(Replace(Strip(s), ","), "JPY"), "EN")

\* Neither empty, nor a bare dash, nor a valid decimal literal.
Malformed(s) == Cleaned(s) \notin {<<>>, <<"-">>, <<"-", "-">>} /\ ~Decimal(Cleaned(s)).ok

\* C18: amount parsing never silently replaces a malformed literal by a
\* value: an item row whose amount cell is malformed makes parsing fail.
C18_MalformedAmountFails ==
  (InvoiceRead /\ \E i \in 1..Len(ItemRows(pdf.tables)) : Truthy(ItemRows(pdf.tables)[i][2]) /\ Malformed(ItemRows(pdf.tables)[i][2].s))
    => parsed.status = "ValueError"


\* The tables of the page whose header row holds the label, in page order.
HeaderTables == SelectSeq(pdf.tables, LAMBDA table : header_row(table) # 0)

\* C19: invoice line items are taken from the first table whose header row
\* holds the label only: when several tables hold such a header, the rows of
\* the later ones contribute no items.
C19_OnlyFirstHeaderTableRead ==
  (InvoiceRead /\ parsed.status = "ok" /\ Len(HeaderTables) > 1)
    => Len(parsed.invoice.items) = Len(ItemRows(<<HeaderTables[1]>>))


\* The rows below the header rows of the page's tables, in page order.
AfterHeader == Flatten([t \in 1..Len(pdf.tables) |-> DataRows(pdf.tables[t])])

\* The name cell is non-empty after stripping and removing a final colon.
Named(row) == Truthy(row[1]) /\ Strip(row[1].s) \notin {<<>>, <<":">>}

NamedRows == SelectSeq(AfterHeader, LAMBDA row : Len(row) >= 3 /\ Named(row))

FullRows == SelectSeq(AfterHeader, LAMBDA row : Len(row) >= 3 /\ Named(row) /\ Truthy(row[2]) /\ Truthy(row[3]))

\* C20 as stated: a row after the header becomes an InvoiceItem if and only
\* if its first three cells are all non-empty and its name is non-empty after
\* stripping; a row with an empty amount or quantity cell produces no item.
C20_ItemIffThreeCellsNonEmpty ==
  (InvoiceRead /\ parsed.status = "ok") => Len(parsed.invoice.items) = Len(FullRows)

\* C20 amended: when parsing succeeds, a row after the header becomes an
\* InvoiceItem if and only if it has at least three cells and a non-empty
\* name; an empty amount cell gives amount 0 and an empty quantity cell
\* quantity 1.
C20_ItemIffThreeCellsAndName ==
  (InvoiceRead /\ parsed.status = "ok") =>
    /\ Len(parsed.invoice.items) = Len(NamedRows)
    /\ \A i \in 1..Len(NamedRows) :
         /\ ~Truthy(NamedRows[i][2]) => parsed.invoice.items[i].amount = 0
         /\ ~Truthy(NamedRows[i][3]) => parsed.invoice.items[i].quantity = 1

C20_EmptyAmountRowBecameItem ==
  /\ InvoiceRead /\ parsed.status = "ok"
  /\ \E i \in 1..Len(NamedRows) : ~Truthy(NamedRows[i][2]) /\ parsed.invoice.items[i].amount = 0
  /\ \E row \in {AfterHeader[k] : k \in 1..Len(AfterHeader)} : Len(row) < 3


\* A table without the rows below its header that have three cells and no name.
WithoutNameless(table) ==
  IF header_row(table) = 0 THEN table
  ELSE SubSeq(table, 1, header_row(table)) \o SelectSeq(DataRows(table), LAMBDA row : Len(row) < 3 \/ Named(row))

NamelessRows == SelectSeq(AfterHeader, LAMBDA row : Len(row) >= 3 /\ ~Named(row))

\* C21: the item list returned by invoice extraction holds no item with an
\* empty name, and a row whose name cell is empty after trimming and removing
\* a trailing full-width colon is dropped without any effect on the other
\* rows: the result is the one of the same page without those rows.
C21_NamelessRowsDropped ==
  InvoiceRead =>
    /\ parsed.status = "ok" => \A i \in 1..Len(parsed.invoice.items) : parsed.invoice.items[i].item_name # <<>>
    /\ parsed = InvoiceParser_parse([pdf EXCEPT !.tables = [t \in 1..Len(pdf.tables) |-> WithoutNameless(pdf.tables[t])]])

C21_NamelessRowBesideItem ==
  InvoiceRead /\ parsed.status = "ok" /\ Len(NamelessRows) > 0 /\ Len(parsed.invoice.items) > 0


(***************************************************************************)
(* Vocabulary for the layout of a journal row.                             *)
(***************************************************************************)
DEBIT_TAX_AMOUNT == 10
CREDIT_TAX_AMOUNT == 18

\* The rows the write_* calls of this behaviour have appended.
AppendedRows == UNION {{values[w][i] : i \in 1..Len(values[w])} : w \in {v \in Writers : outcome[v] = "written"}}

\* C22 as stated: every journal row appended to the ledger has exactly 27
\* positional fields, and on each leg the numeric fields the leg does not use
\* are 0: credit amount and credit tax amount on a debit leg, debit amount
\* and debit tax amount on a credit leg.
C22_UnusedNumericFieldsZero ==
  \A row \in AppendedRows :
    /\ Len(row) = RowWidth
    /\ IsDebitLeg(row) => row[CREDIT_AMOUNT] = PyInt(0) /\ row[CREDIT_TAX_AMOUNT] = PyInt(0)
    /\ IsCreditLeg(row) => row[DEBIT_AMOUNT] = PyInt(0) /\ row[DEBIT_TAX_AMOUNT] = PyInt(0)

\* C22 amended: every journal row appended to the ledger has exactly 27
\* positional fields and is a debit leg or a credit leg; both tax amount
\* fields are 0 on every leg, the amount field of the leg's own side is a
\* number, and the amount field of the other side is the empty string.
C22_UnusedAmountEmptyTaxZero ==
  \A row \in AppendedRows :
    /\ Len(row) = RowWidth
    /\ IsDebitLeg(row) \/ IsCreditLeg(row)
    /\ row[DEBIT_TAX_AMOUNT] = PyInt(0) /\ row[CREDIT_TAX_AMOUNT] = PyInt(0)
    /\ IsDebitLeg(row) => IsNumber(row[DEBIT_AMOUNT]) /\ row[CREDIT_AMOUNT] = E
    /\ IsCreditLeg(row) => IsNumber(row[CREDIT_AMOUNT]) /\ row[DEBIT_AMOUNT] = E

\* A block with a taxed debit leg and its credit leg was appended.
C22_BothLegsAppended ==
  /\ \E row \in AppendedRows : IsDebitLeg(row) /\ row[DEBIT_TAX_CATEGORY] # E
  /\ \E row \in AppendedRows : IsCreditLeg(row)


(***************************************************************************)
(* Vocabulary for the oracle's response.                                   *)
(***************************************************************************)
\* The texts that are a JSON object, with the object each of them denotes.
JsonObjects == {Bare(ExampleData), Bare([ExampleData EXCEPT !.issue_date = Absent]), BareWithFenceInString(ExampleData)}

ObjectOf(body) == IF Len(body) = 3 THEN body[2].data ELSE body[5].data

\* The body in a fenced code block: the fence, with or without the word
\* json, before it and the fence after it.
Fenced(body) ==
  {before \o body \o after : before \in {<<Tok("FENCE")>>, <<Tok("FENCE"), Tok("nl")>>, <<Tok("FENCE"), Tok("json")>>, <<Tok("FENCE"), Tok("json"), Tok("nl")>>}, after \in {<<Tok("FENCE")>>, <<Tok("nl"), Tok("FENCE")>>}}

\* C23: a response that is a JSON body wrapped in a fenced code block is
\* parsed to the same result as the bare body, and an unfenced response is
\* parsed as it is.
C23_FencedParsedAsBare ==
  PermitRead => \A body \in JsonObjects : pdf.response \in Fenced(body) \cup {body} => parsed = PermitFromData(ObjectOf(body))


\* C24: CreateAccountingFromInvoiceUseCase.execute parses the PDF before it
\* contacts the accounting repository.  If parsing fails, that error is what
\* execute raises and create_transaction is never called; if parsing
\* succeeds, create_transaction is called exactly once, with the parsed
\* invoice, and its result or its error is what execute returns or raises.
C24_ParseBeforeRepository ==
  accounting.pc # "none" =>
    /\ accounting.pc = "start" => accounting.calls = <<>>
    /\ (accounting.pc # "start" /\ parsed.status # "ok") =>
         accounting.pc = "raised" /\ accounting.calls = <<>> /\ accounting.error = parsed
    /\ parsed.status = "ok" => accounting.calls = <<parsed.invoice>> /\ accounting.pc \in {"awaiting", "returned", "raised"}
    /\ accounting.pc = "returned" => accounting.reply \in TransactionIds /\ accounting.result = accounting.reply
    /\ (accounting.pc = "raised" /\ parsed.status = "ok") => accounting.error \in RepositoryErrors /\ accounting.error.status = accounting.reply

\* execute returned the id the repository gave for the parsed invoice.
C24_ReturnedTransactionId ==
  /\ accounting.pc = "returned" /\ accounting.result = "transaction_123"
  /\ accounting.calls = <<parsed.invoice>>


\* The blocks of document d in the ledger: each block ends with one credit leg.
BlocksOf(d) == {i \in RowsOf(d) : IsCreditLeg(sheet[i])}

\* C25: across repeated runs of execute over the same source documents, the
\* journal block of a document is appended to the ledger at most once, also
\* when a run appended the block and the document's upload then failed.
C25_BlockAppendedAtMostOnce ==
  \A d \in DocsInSheet : Cardinality(BlocksOf(d)) <= 1


\* The transaction numbers of the rows that documents wrote, in ledger order.
WrittenNumbers == [i \in 1..Len(SelectSeq(sheet, LAMBDA row : Len(row) = RowWidth)) |-> SelectSeq(sheet, LAMBDA row : Len(row) = RowWidth)[i][1].n]

\* C26: when documents are written one at a time, as execute does, every
\* append puts its rows below the rows already there, and the transaction_no
\* of every new row is strictly greater than every integer transaction
\* number already in the ledger: blocks of different documents never share a
\* number and the numbers increase in append order.
C26_NumbersIncreaseInAppendOrder ==
  [][sheet' # sheet =>
       /\ Len(sheet') > Len(sheet) /\ SubSeq(sheet', 1, Len(sheet)) = sheet
       /\ \A k \in Len(sheet) + 1..Len(sheet') : \A v \in ParsedCells(ColumnA(sheet)) : sheet'[k][1].n > v]_vars

\* Two runs left three blocks or more, numbered upwards from the 7 that was
\* in the ledger.
C26_BlocksNumberedUpwards ==
  /\ Cardinality({WrittenNumbers[i] : i \in 1..Len(WrittenNumbers)}) >= 3
  /\ \A i \in 1..Len(WrittenNumbers) : WrittenNumbers[i] > 7
  /\ \A i \in 1..Len(WrittenNumbers) - 1 : WrittenNumbers[i] <= WrittenNumbers[i + 1]


\* How often _remove_local_file was called for document i, and where.
Removals(i) == {k \in 1..Len(events[i]) : events[i][k] = "removed"}

UploadStepAt(i) == CHOOSE k \in 1..Len(events[i]) : events[i][k] = "upload"

\* C27: when execute returns after a non-empty download, the removal of the
\* local file of every downloaded document has been attempted exactly once,
\* in the upload step, whether the document was uploaded, skipped as already
\* present, or failed to upload.
C27_RemovalAttemptedOnce ==
  (step \in {"returned", "reported"} /\ Len(documents) > 0) =>
    /\ Len(events) = Len(documents)
    /\ \A i \in 1..Len(documents) :
         /\ Cardinality(Removals(i)) = 1
         /\ Did(i, "upload") /\ \A k \in Removals(i) : k > UploadStepAt(i)

\* execute returned after one document was skipped as already present and
\* another failed to upload.
C27_ReturnedAfterSkipAndFailure ==
  /\ step = "returned" /\ Len(documents) = 2
  /\ \E i, j \in 1..2 : Did(i, "skipped") /\ Did(j, "failed: upload")


\* Documents whose type is neither invoice nor import permit.
OtherDocuments == {i \in 1..Len(documents) : documents[i].document_type \notin {"Seikyusho", "YunyuKyokasho"}}

\* The events of document i from its upload step on.
UploadEvents(i) == IF Did(i, "upload") THEN SubSeq(events[i], UploadStepAt(i), Len(events[i])) ELSE <<>>

\* C28: a downloaded document whose type is neither invoice nor import permit
\* is never written to the ledger and never uploaded (the folder lookup
\* fails for it in both steps), and its failure does not stop the other
\* documents.
C28_OtherTypeNeitherWrittenNorUploaded ==
  /\ \A i \in OtherDocuments \cap (1..Len(events)) :
       /\ ~Did(i, "written") /\ ~Did(i, "uploaded")
       /\ documents[i].name \notin DocsInSheet
       /\ Did(i, "accounting") => events[i][2] = "failed: folder"
       /\ Did(i, "upload") => UploadEvents(i)[2] = "failed: folder"
  /\ (step \in {"returned", "reported"} /\ OtherDocuments # {}) =>
       \A j \in 1..Len(documents) : Did(j, "upload") /\ (spreadsheet_repository => Did(j, "accounting"))

\* A document of another type came first, and the invoice after it was
\* written and uploaded all the same.
C28_OtherTypeThenWrittenAndUploaded ==
  /\ step = "returned" /\ Len(documents) = 2
  /\ 1 \in OtherDocuments /\ Did(2, "written") /\ Did(2, "uploaded")

(***************************************************************************)
(* The upload service called on its own.                                   *)
(***************************************************************************)
CalledFile == DriveFile(upload.args.file_path, upload.args.folder_id, upload.args.issue_date)

CalledMonthFolder == month_folder(upload.args.folder_id, upload.args.issue_date)

Copies(drv, file) == CopiesIn(file, drv.files)

\* C29: calls of upload_document that do not overlap leave at most one file
\* of a given name YYYYMMDD_<name> in a month folder: a call that finds the
\* file there creates no file. document_exists leaves Drive as it was,
\* folders and files, and answers false when the month folder is missing.
C29_SequentialUploadsIdempotent ==
  /\ \A f \in BagToSet(drive.files) : Copies(drive, f) <= 1
  /\ (upload.op = "upload_document" /\ Copies(upload.before, CalledFile) > 0) => drive.files = upload.before.files
  /\ (upload.op = "upload_document" /\ ~upload.raised) => Copies(drive, CalledFile) = 1
  /\ upload.op = "document_exists" =>
       /\ drive = upload.before
       /\ CalledMonthFolder \notin upload.before.folders => ~upload.result
       /\ upload.result <=> Copies(upload.before, CalledFile) > 0

\* A second upload of a file returned: the file was there before the call.
C29_UploadedAgain ==
  /\ upload.n >= 2 /\ upload.op = "upload_document" /\ ~upload.raised
  /\ Copies(upload.before, CalledFile) = 1
  /\ Copies(drive, CalledFile) = 1

(***************************************************************************)
(* PDFDownloader.download.                                                 *)
(***************************************************************************)
DownloadEnded == download.pc \in {"returned", "raised"}

IsPdf(file) == file.exists /\ file.head = "%PDF"

\* download ends after at most three attempts, by returning or by raising
\* the error of the third attempt.
DownloadAtMostThreeAttempts ==
  /\ download.calls <= 3
  /\ download.pc = "loop" => download.calls < 3

DownloadTerminates == <>DownloadEnded

\* download returns True only with a file at file_path that begins with %PDF.
DownloadTrueOnlyWithPdf ==
  (download.pc = "returned" /\ download.result) => IsPdf(download.file)

\* C30: download makes at most 3 attempts; it returns True only when the
\* file at file_path exists and begins with %PDF; and when it returns False
\* no file that is not a PDF is left at file_path.
C30_FalseLeavesNoInvalidFile ==
  /\ DownloadAtMostThreeAttempts
  /\ DownloadTrueOnlyWithPdf
  /\ (download.pc = "returned" /\ ~download.result) => (~download.file.exists \/ IsPdf(download.file))

====
